---------------------------- MODULE Spec2Model ----------------------------
(***************************************************************************)
(* The broker's in-memory task exchange (broker/src/serve_tasks.rs) and    *)
(* the socket rendezvous (broker/src/serve_sockets.rs).                    *)
(*                                                                         *)
(* Every critical section that the code runs under the task-map RwLock is  *)
(* one action; a handler that suspends (a long-poll in its select!) is one *)
(* action per resumption.  Time is abstract: a deadline may elapse at any  *)
(* step at which the handler is suspended in its select!.                  *)
(***************************************************************************)
EXTENDS Integers, Sequences, FiniteSets, TLC

(***************************************************************************)
(* Bounds of the model.                                                    *)
(***************************************************************************)
MaxPosts == 3
MaxPuts == 2
MaxDels == 1
MaxSockets == 2
MaxForwards == 3
\* the capacity of a broadcast channel (512 and 256 in the code)
MaxQueue == 2
MaxEvents == 4
\* the environment sets no APP_i_ID and no APP_i_KEY with i >= MaxApps
MaxApps == 3
MaxSends == 3

Apps == {"A1", "B1", "C1"}
TaskIds == {1, 2}
None == "None"

\* shared WorkStatus, as named by get_tasks and the filter_task test
WorkStatus == {"Claimed", "TempFailed", "PermFailed", "Succeeded"}

\* the `to` sets a result envelope may carry
ResultTos == {{"A1"}, {"C1"}}
PutStatuses == {"TempFailed", "Succeeded"}

Listers == {"L1"}
Connectors == {"K1", "K2", "K3"}
SockIds == {1, 2}
Readers == {"R1"}
\* the broker's handlers that take a lock of TasksState, and the sweeper
Handlers == {"post_task", "put_result", "get_results", "get_stream", "get_tasks", "watch"}
\* the proxy's monitoring clients and the tasks that report to the monitor
MonClients == {"M1", "M2"}
MonSenders == {"T1", "T2"}

\* HowLongToBlock.wait_count / wait_time as supplied by clients
\* (an Option is <<>> for None and <<v>> for Some(v))
WaitCounts == {<<>>, <<1>>, <<2>>}
WaitTimes == {<<>>, <<"t">>}

VARIABLES
    tasks,      \* TasksState.tasks: MsgId -> MsgSigned<EncryptedMsgTaskRequest>
    txes,       \* TasksState.new_result_tx: the ids that own a result Sender
    listers,    \* one in-flight GET /v1/tasks per element of Listers
    readers,    \* one in-flight GET /v1/tasks/:id/results per element of Readers
    resp,       \* the response of the POST or PUT handler that ran in the last step
    created,    \* history: 201 answers per id since the id last became free
    accepted,   \* history: per live task, the workers whose PUT was accepted
    nPost, nPut, nDel,  \* how many POSTs, PUTs and deletion notices have happened
    task_manager,           \* SocketState.task_manager: MsgId -> socket task
    waiting_connections,    \* SocketState.waiting_connections: MsgId -> parked connector
    connectors,             \* one GET /v1/sockets/:id per element of Connectors
    tunnels,                \* the spawned relays: the two requests each one joins
    nSocket,                \* how many POST /v1/sockets have happened
    outbox,                 \* proxy: the requests handed to the client for the broker
    proxy_resp,             \* proxy: what forward_request made of the last request
    nForward,               \* how many requests the proxy has handled
    tasks_lock,             \* the RwLock of TasksState.tasks: "free" or "write"
    putter,                 \* a put_result that runs step by step
    environ,                \* proxy: the process environment, APP_i_ID and APP_i_KEY by i
    scan,                   \* proxy: parse_apikeys as far as it has run
    rwlocks,                \* the two RwLocks of TasksState: who holds each, who queues for it
    handlers,               \* one broker handler per element of Handlers, by its lock steps
    should_record,          \* proxy: Monitorer.should_record
    subscribers,            \* proxy: one stream_recorded_tasks per element of MonClients
    senders,                \* proxy: one Monitorer::send per element of MonSenders
    nSend                   \* how many updates have been handed to Monitorer::send

taskVars == <<tasks, txes, listers, readers, resp, created, accepted, nPost, nPut, nDel>>
sockVars == <<task_manager, waiting_connections, connectors, tunnels, nSocket>>
proxyVars == <<outbox, proxy_resp, nForward>>
lockVars == <<tasks_lock, putter>>
cfgVars == <<environ, scan>>
rwVars == <<rwlocks, handlers>>
monVars == <<should_record, subscribers, senders, nSend>>
otherVars == <<cfgVars, rwVars, monVars>>
vars == <<taskVars, sockVars, proxyVars, lockVars, otherVars>>

(***************************************************************************)
(* Maps and sequences.                                                     *)
(***************************************************************************)
EmptyMap == [k \in {} |-> None]

MapPut(m, k, v) == [x \in (DOMAIN m) \cup {k} |-> IF x = k THEN v ELSE m[x]]

\* (mutant) the entry stays
MapRemoveNothing(m, k) == m

MapRemove(m, k) == [x \in (DOMAIN m) \ {k} |-> m[x]]

Range(s) == {s[i] : i \in DOMAIN s}

\* HashMap iteration order is unspecified; the model clones a map's values in
\* the order of its keys (ids ascending, apps in AppOrder).
AppOrder == <<"A1", "B1", "C1">>
IdOrder == <<1, 2>>

ValuesOf(m, order) ==
    LET keys == SelectSeq(order, LAMBDA k : k \in DOMAIN m)
    IN  [i \in 1..Len(keys) |-> m[keys[i]]]

(***************************************************************************)
(* Messages.                                                               *)
(***************************************************************************)
\* a posted task envelope; its result map starts empty
TaskMsg(id, from, to) == [id |-> id, from |-> from, to |-> to, results |-> EmptyMap]

PostInputs ==
    {TaskMsg(1, "A1", {"B1"}), TaskMsg(1, "A1", {"B1", "C1"}), TaskMsg(2, "B1", {"A1"})}

ResultMsg(from, to, task, status) ==
    [from |-> from, to |-> to, task |-> task, status |-> status]

PutInputs ==
    {ResultMsg("B1", t, 1, st) : t \in ResultTos, st \in PutStatuses}
    \cup {ResultMsg("C1", {"A1"}, 1, st) : st \in PutStatuses}
    \cup {ResultMsg(f, {"B1"}, 2, "Succeeded") : f \in {"A1", "B1"}}

\* PUT requests <<:task_id, :app_id, envelope>>: the path agrees with the
\* envelope, or names another task, or names another app
PutRequests ==
    {<<res.task, res.from, res>> : res \in PutInputs}
    \cup {<<2, "A1", ResultMsg("A1", {"B1"}, 1, "Succeeded")>>,
          <<1, "B1", ResultMsg("C1", {"A1"}, 1, "Succeeded")>>}

\* HasWaitId: a task waits under its id, a result under (task, from)
TaskWaitId(m) == m.id
ResultWaitId(m) == <<m.task, m.from>>
\* el.wait_id(): the implementation of HasWaitId for the element's type
WaitId(el) == IF "task" \in DOMAIN el THEN ResultWaitId(el) ELSE TaskWaitId(el)

(***************************************************************************)
(* MsgFilterTrait, MsgFilterNoTask, MsgFilterForTask.                      *)
(***************************************************************************)
\* filter_or: true iff the from or the to condition matches (or none is set)
FilterOr(from, to, msg) ==
    IF from = None /\ to = None THEN TRUE
    ELSE IF to # None /\ to \in msg.to THEN TRUE
    ELSE IF from # None /\ msg.from = from THEN TRUE
    ELSE FALSE

\* (mutant) a temporary failure counts as an answer
ClosedStatusesWithTemp == {"Succeeded", "PermFailed", "TempFailed"}

\* get_tasks: workstatus_is_not
ClosedStatuses == {"Succeeded", "PermFailed"}

\* MsgFilterForTask::unanswered: scans the values of the result map
Unanswered(unanswered_by, msg) ==
    IF unanswered_by = None THEN TRUE
    ELSE ~ \E k \in DOMAIN msg.results :
              /\ msg.results[k].from = unanswered_by
              /\ msg.results[k].status \in ClosedStatuses

\* MsgFilterForTask::matches
TaskFilterMatches(flt, msg) ==
    FilterOr(flt.from, flt.to, msg) /\ Unanswered(flt.unanswered_by, msg)

\* get_tasks: `to` defaults to the caller under filter=todo, which also sets
\* unanswered_by
FilterOf(caller, q) ==
    [from |-> q.from,
     to |-> IF q.filter = "todo" /\ q.to = None THEN caller ELSE q.to,
     unanswered_by |-> IF q.filter = "todo" THEN caller ELSE None]

(***************************************************************************)
(* HowLongToBlock helpers.                                                 *)
(***************************************************************************)
\* block.wait_count.unwrap_or(0)
CountOf(block) == IF block.wait_count = <<>> THEN 0 ELSE block.wait_count[1]

WouldWaitForElements(existing, block) == CountOf(block) > existing

\* (mutant) the comparison is turned around
WaitGetStatuscodeSwapped(vec, block) == IF CountOf(block) < Len(vec) THEN 206 ELSE 200

\* 206 PARTIAL_CONTENT, 200 OK
WaitGetStatuscode(vec, block) == IF CountOf(block) > Len(vec) THEN 206 ELSE 200

\* the last answer: the path's task id (`id`) and app id (`app`), the envelope's
\* issuer (`from`) and task (`task`), the stored message if any
NoResp ==
    [op |-> "none", status |-> 0, id |-> 0, app |-> None, from |-> None, task |-> 0,
     msg |-> None]

Blocks == [wait_count : WaitCounts, wait_time : WaitTimes]

\* the blocks the registry specifications issue
SomeBlocks ==
    {[wait_count |-> <<>>, wait_time |-> <<"t">>],
     [wait_count |-> <<1>>, wait_time |-> <<>>],
     [wait_count |-> <<2>>, wait_time |-> <<"t">>]}
NoBlock == [wait_count |-> <<>>, wait_time |-> <<>>]

\* a GET /v1/tasks that has not been issued yet (`gone` notes, at the
\* snapshot, the ids that were posted and removed and are not live; `lagged`
\* names the receivers, "new" or "del", that were overrun)
IdleLister ==
    [pc |-> "idle", caller |-> None, q |-> [from |-> None, to |-> None, filter |-> None],
     block |-> NoBlock, vec |-> <<>>, rx_new |-> <<>>, rx_del |-> <<>>,
     status |-> 0, exit |-> "", snap_ids |-> {}, owed |-> {}, gone |-> {}, lagged |-> {}]

\* a GET /v1/tasks/:id/results that has not been issued yet
IdleReader ==
    [pc |-> "idle", caller |-> None, task_id |-> 0, block |-> NoBlock,
     vec |-> <<>>, rx_new |-> <<>>, rx_del |-> <<>>, closed |-> FALSE,
     status |-> 0, exit |-> "", snap_keys |-> {}, owed |-> EmptyMap, deleted |-> FALSE,
     sse |-> FALSE, subscribed |-> FALSE, results |-> EmptyMap, events |-> <<>>,
     lagged |-> {}]

\* the request holds a receiver of its task's result channel: a long-poll in
\* its loop, or a stream that subscribed and has not ended
Subscribed(w) == w.pc = "waiting" \/ (w.pc = "replay" /\ w.subscribed)

\* a GET /v1/sockets/:id that has not been issued yet
IdleConnector ==
    [pc |-> "idle", caller |-> None, task_id |-> 0, upgrade |-> FALSE,
     admitted |-> FALSE, other_req |-> <<>>, status |-> 0]

\* SocketState::default()
InitSockets ==
    /\ task_manager = EmptyMap
    /\ waiting_connections = EmptyMap
    /\ connectors = [c \in Connectors |-> IdleConnector]
    /\ tunnels = {}
    /\ nSocket = 0

\* the proxy has handled no request
NoProxyResp == [sender |-> None, body |-> <<>>, status |-> 0, sent |-> FALSE]

\* a PUT that has not been issued yet
IdlePutter == [pc |-> "idle", task_id |-> 0, app_id |-> None, result |-> <<>>, status |-> 0]

\* a handler that is not running
IdleHandler == [plan |-> <<>>, pc |-> 0, queued |-> FALSE]

\* both locks free, nobody queued
InitRw ==
    /\ rwlocks = [l \in {"tasks", "new_result_tx"} |-> [holders |-> {}, queue |-> <<>>]]
    /\ handlers = [h \in Handlers |-> IdleHandler]

\* a monitoring client that has not called, a send that has not begun
IdleSubscriber == [pc |-> "idle", rx |-> <<>>, got |-> <<>>]
IdleSender == [pc |-> "idle", update |-> 0]

\* Monitorer::default(): should_record false, a channel without receivers
InitMonitor ==
    /\ should_record = FALSE
    /\ subscribers = [c \in MonClients |-> IdleSubscriber]
    /\ senders = [s \in MonSenders |-> IdleSender]
    /\ nSend = 0

\* parse_apikeys has not been called
NotParsed == [pc |-> "idle", i |-> 0, api_keys |-> EmptyMap, err |-> ""]

\* an environment without APP_ variables
InitConfig ==
    /\ environ = [i \in 0..(MaxApps - 1) |-> [id |-> <<>>, key |-> <<>>]]
    /\ scan = NotParsed

\* nobody holds the lock of the task map
InitLock ==
    /\ tasks_lock = "free"
    /\ putter = IdlePutter

InitProxy ==
    /\ outbox = <<>>
    /\ proxy_resp = NoProxyResp
    /\ nForward = 0

Init ==
    /\ InitSockets
    /\ InitProxy
    /\ InitLock
    /\ InitConfig
    /\ InitRw
    /\ InitMonitor
    /\ tasks = EmptyMap
    /\ txes = {}
    /\ listers = [l \in Listers |-> IdleLister]
    /\ readers = [r \in Readers |-> IdleReader]
    /\ resp = NoResp
    /\ created = [id \in TaskIds |-> 0]
    /\ accepted = [id \in TaskIds |-> {}]
    /\ nPost = 0
    /\ nPut = 0
    /\ nDel = 0

(***************************************************************************)
(* POST /v1/tasks                                                          *)
(***************************************************************************)
\* (mutant) the id is never looked up: every POST inserts
PostConflictNever(id) == FALSE

\* tasks.contains_key(&msg.msg.id)
PostConflict(id) == id \in DOMAIN tasks

\* (mutant) the new-task notification is dropped
NewTaskSendNothing(ls, msg) == ls

\* new_task_tx.send(msg.clone()): every live receiver gets a clone
NewTaskSend(ls, msg) ==
    [l \in Listers |->
        IF ls[l].pc \in {"snap", "waiting"}
        THEN [ls[l] EXCEPT !.rx_new = Append(@, msg)]
        ELSE ls[l]]

\* txes.insert(id, new_tx) drops the Sender the id had before: its receivers
\* see the channel closed once they have drained it
DropResultSender(rs, id) ==
    [r \in Readers |->
        IF Subscribed(rs[r]) /\ rs[r].task_id = id
        THEN [rs[r] EXCEPT !.closed = TRUE]
        ELSE rs[r]]

\* history: a task posted while a lister is in flight and matching its filter
\* is owed to that lister
OweTask(ls, msg) ==
    [l \in Listers |->
        IF ls[l].pc \in {"snap", "waiting"} /\ TaskFilterMatches(FilterOf(ls[l].caller, ls[l].q), msg)
        THEN [ls[l] EXCEPT !.owed = @ \cup {msg.id}]
        ELSE ls[l]]

\* (mutant) the task is stored without a Sender
TxesInsertForgotten(senders_of, id) == senders_of

\* txes.insert(msg.msg.id, new_tx)
TxesInsert(senders_of, id) == senders_of \cup {id}

\* (mutant) every POST is answered 409, the stored ones too
PostRespAlwaysConflict(status, msg) ==
    [op |-> "post", status |-> 409, id |-> msg.id, app |-> None, from |-> msg.from,
     task |-> msg.id, msg |-> None]

\* the answer to a POST: 201 with the Location of the task, or 409
PostResp(status, msg) ==
    [op |-> "post", status |-> status, id |-> msg.id, app |-> None, from |-> msg.from,
     task |-> msg.id, msg |-> None]

PostTask(msg) ==
    /\ nPost < MaxPosts
    /\ tasks_lock = "free"
    /\ nPost' = nPost + 1
    /\ IF PostConflict(msg.id)
       THEN /\ resp' = PostResp(409, msg)
            /\ UNCHANGED <<tasks, txes, listers, readers, created, accepted>>
       ELSE /\ tasks' = MapPut(tasks, msg.id, msg)
            /\ txes' = TxesInsert(txes, msg.id)
            /\ readers' = DropResultSender(readers, msg.id)
            /\ listers' = OweTask(NewTaskSend(listers, msg), msg)
            /\ created' = [created EXCEPT ![msg.id] = @ + 1]
            /\ accepted' = accepted
            /\ resp' = PostResp(201, msg)
    /\ UNCHANGED <<nPut, nDel>>
    /\ UNCHANGED <<sockVars, proxyVars, lockVars, otherVars>>

(***************************************************************************)
(* The expiry sweeper: router() hands expire::watch the task map and a     *)
(* new-task receiver, nothing else.  A task's TTL may run out at any time. *)
(***************************************************************************)
Expire(id) ==
    /\ id \in DOMAIN tasks
    /\ tasks_lock = "free"
    /\ tasks' = MapRemove(tasks, id)
    /\ created' = [created EXCEPT ![id] = 0]
    /\ accepted' = [accepted EXCEPT ![id] = {}]
    /\ readers' = [r \in Readers |->
                     IF Subscribed(readers[r]) /\ readers[r].task_id = id
                     THEN [readers[r] EXCEPT !.deleted = TRUE]
                     ELSE readers[r]]
    /\ resp' = NoResp
    /\ UNCHANGED <<txes, listers, nPost, nPut, nDel>>
    /\ UNCHANGED <<sockVars, proxyVars, lockVars, otherVars>>

(***************************************************************************)
(* PUT /v1/tasks/:task_id/results/:app_id                                  *)
(***************************************************************************)
\* (mutant) any signed worker may answer
PutAuthorizedAnyone(task, worker_id) == TRUE

\* task.to.contains(&worker_id)
PutAuthorized(task, worker_id) == worker_id \in task.to

\* (mutant) a replacement answers like a first result
PutStatusAlwaysCreated(task, worker_id) == 201

\* task.results.insert(..): Some(_) => NO_CONTENT, None => CREATED
PutStatus(task, worker_id) == IF worker_id \in DOMAIN task.results THEN 204 ELSE 201

\* (mutant) the notification is dropped
NewResultSendNothing(rs, task_id, result) == rs

\* sender.send(result): every receiver of the task's channel gets a clone
NewResultSend(rs, task_id, result) ==
    [r \in Readers |->
        IF Subscribed(rs[r]) /\ rs[r].task_id = task_id /\ ~rs[r].closed
        THEN [rs[r] EXCEPT !.rx_new = Append(@, result)]
        ELSE rs[r]]

\* history: an accepted result addressed to a reader that is waiting on the
\* (still live) task is owed to that reader
OweResult(rs, task_id, result) ==
    [r \in Readers |->
        IF /\ Subscribed(rs[r]) /\ rs[r].task_id = task_id
           /\ ~rs[r].deleted /\ rs[r].caller \in result.to
        THEN [rs[r] EXCEPT !.owed = MapPut(@, result.from, result)]
        ELSE rs[r]]

\* the answer to a PUT; `msg` is the stored result when one was stored
PutResp(status, task_id, app_id, result) ==
    [op |-> "put", status |-> status, id |-> task_id, app |-> app_id,
     from |-> result.from, task |-> result.task,
     msg |-> IF status \in {201, 204} THEN result ELSE None]

\* (mutant) only the app id of the path is compared
PutPathMismatchAppOnly(task_id, app_id, result) == app_id # result.from

\* the two BAD_REQUEST checks of the path against the signed envelope
PutPathMismatch(task_id, app_id, result) ==
    task_id # result.task \/ app_id # result.from

PutResult(task_id, app_id, result) ==
    /\ nPut < MaxPuts
    /\ tasks_lock = "free"
    /\ nPut' = nPut + 1
    /\ UNCHANGED <<txes, listers, created, nPost, nDel>>
    /\ UNCHANGED <<sockVars, proxyVars, lockVars, otherVars>>
    /\ IF PutPathMismatch(task_id, app_id, result)
       THEN /\ resp' = PutResp(400, task_id, app_id, result)
            /\ UNCHANGED <<tasks, readers, accepted>>
       ELSE IF task_id \notin DOMAIN tasks
       THEN /\ resp' = PutResp(404, task_id, app_id, result)
            /\ UNCHANGED <<tasks, readers, accepted>>
       ELSE IF ~PutAuthorized(tasks[task_id], result.from)
       THEN /\ resp' = PutResp(401, task_id, app_id, result)
            /\ UNCHANGED <<tasks, readers, accepted>>
       ELSE /\ tasks' = [tasks EXCEPT ![task_id].results = MapPut(@, result.from, result)]
            /\ accepted' = [accepted EXCEPT ![task_id] = @ \cup {result.from}]
            /\ IF task_id \in txes
               THEN /\ readers' = OweResult(NewResultSend(readers, task_id, result), task_id, result)
                    /\ resp' = PutResp(PutStatus(tasks[task_id], result.from), task_id, app_id,
                                         result)
               ELSE \* panic!("No result_tx found"): the insert stays, nobody is told
                    /\ readers' = readers
                    /\ resp' = PutResp(0, task_id, app_id, result)

(***************************************************************************)
(* put_result step by step: its path checks, tasks.write().await, the      *)
(* lookup and insert, the notification, and the return that drops the      *)
(* guard.  PutResult above is the same handler taken as one step.          *)
(***************************************************************************)
\* (mutant) the guard is dropped once the result is inserted
GuardAfterInsertDropped(pc) == IF pc = "inserted" THEN "free" ELSE "write"

\* `tasks` (the RwLockWriteGuard) lives to the end of the function
GuardAfter(pc) == "write"

PutStepUnchanged ==
    UNCHANGED <<txes, listers, created, nPost, nDel, sockVars, proxyVars, otherVars>>

\* the handler starts: the two BAD_REQUEST checks
PutBegin(task_id, app_id, result) ==
    /\ putter.pc = "idle"
    /\ nPut < MaxPuts
    /\ nPut' = nPut + 1
    /\ LET p == [putter EXCEPT !.task_id = task_id, !.app_id = app_id, !.result = <<result>>]
       IN  IF PutPathMismatch(task_id, app_id, result)
           THEN /\ putter' = [p EXCEPT !.pc = "done", !.status = 400]
                /\ resp' = PutResp(400, task_id, app_id, result)
           ELSE /\ putter' = [p EXCEPT !.pc = "locking"]
                /\ resp' = NoResp
    /\ UNCHANGED <<tasks, readers, accepted, tasks_lock>>
    /\ PutStepUnchanged

\* let mut tasks = state.tasks.write().await
PutLock ==
    /\ putter.pc = "locking"
    /\ tasks_lock = "free"
    /\ tasks_lock' = GuardAfter("locked")
    /\ putter' = [putter EXCEPT !.pc = "locked"]
    /\ resp' = NoResp
    /\ UNCHANGED <<tasks, readers, accepted, nPut>>
    /\ PutStepUnchanged

\* Step 1 and Step 2: NOT_FOUND, UNAUTHORIZED (the return drops the guard),
\* or task.results.insert
PutInsert ==
    LET task_id == putter.task_id
        result == putter.result[1]
        refused == IF task_id \notin DOMAIN tasks THEN 404
                   ELSE IF ~PutAuthorized(tasks[task_id], result.from) THEN 401
                   ELSE 0
    IN  /\ putter.pc = "locked"
        /\ nPut' = nPut
        /\ PutStepUnchanged
        /\ readers' = readers
        /\ IF refused # 0
           THEN /\ putter' = [putter EXCEPT !.pc = "done", !.status = refused]
                /\ tasks_lock' = "free"
                /\ resp' = PutResp(refused, task_id, putter.app_id, result)
                /\ UNCHANGED <<tasks, accepted>>
           ELSE /\ tasks' = [tasks EXCEPT ![task_id].results = MapPut(@, result.from, result)]
                /\ accepted' = [accepted EXCEPT ![task_id] = @ \cup {result.from}]
                /\ putter' = [putter EXCEPT !.pc = "inserted",
                                             !.status = PutStatus(tasks[task_id], result.from)]
                /\ tasks_lock' = GuardAfter("inserted")
                /\ resp' = NoResp

\* Step 3: sender.send(result)
PutNotify ==
    LET task_id == putter.task_id
        result == putter.result[1]
    IN  /\ putter.pc = "inserted"
        /\ nPut' = nPut
        /\ PutStepUnchanged
        /\ UNCHANGED <<tasks, accepted>>
        /\ resp' = NoResp
        /\ tasks_lock' = GuardAfter("notified")
        /\ IF task_id \in txes
           THEN /\ readers' = OweResult(NewResultSend(readers, task_id, result), task_id, result)
                /\ putter' = [putter EXCEPT !.pc = "notified"]
           ELSE \* panic!("No result_tx found")
                /\ readers' = readers
                /\ putter' = [putter EXCEPT !.pc = "panicked", !.status = 0]

\* Ok(statuscode): the guard is dropped; the next PUT may come
PutReturn ==
    /\ putter.pc \in {"notified", "panicked"}
    /\ tasks_lock' = "free"
    /\ resp' = PutResp(putter.status, putter.task_id, putter.app_id, putter.result[1])
    /\ putter' = [putter EXCEPT !.pc = "done"]
    /\ UNCHANGED <<tasks, readers, accepted, nPut>>
    /\ PutStepUnchanged

\* the client's next PUT
PutAgain ==
    /\ putter.pc = "done"
    /\ putter' = IdlePutter
    /\ resp' = NoResp
    /\ UNCHANGED <<tasks, readers, accepted, nPut, tasks_lock>>
    /\ PutStepUnchanged

\* (mutant) the loop goes on when the buffer has just reached the count
StillWantedOneMore(w) == CountOf(w.block) >= Len(w.vec)

(***************************************************************************)
(* The waiter loops: wait_for_elements_task, wait_for_results_for_task.    *)
(***************************************************************************)
\* the loop condition on the count (the deadline is the Timeout actions)
StillWanted(w) == CountOf(w.block) > Len(w.vec)

\* (mutant) nothing is removed
RetainAll(vec, id) == vec

\* (mutant) everything is removed
RetainNone(vec, id) == <<>>

\* vec.retain(|el| el.wait_id() != id)
RetainOthers(vec, id) == SelectSeq(vec, LAMBDA el : WaitId(el) # id)

\* a received element: if filter(&req) { retain others; push }
WaiterPush(vec, req, matches) ==
    IF matches THEN Append(RetainOthers(vec, WaitId(req)), req) ELSE vec

\* leaving the handler: wait_get_statuscode and the JSON body
Respond(w, why) ==
    [w EXCEPT !.pc = "done", !.status = WaitGetStatuscode(w.vec, w.block), !.exit = why]

(***************************************************************************)
(* GET /v1/tasks                                                           *)
(***************************************************************************)
ListQueries == [from : Apps \cup {None}, to : Apps \cup {None}, filter : {None, "todo"}]

\* (mutant) rejected only if the caller is neither `from` nor `to`
ListUnauthorizedNeither(flt, caller) == flt.from # caller /\ flt.to # caller

\* some supplied parameter names somebody other than the caller
ListUnauthorized(flt, caller) ==
    \/ (flt.from # None /\ flt.from # caller)
    \/ (flt.to # None /\ flt.to # caller)

\* (mutant) the snapshot is taken of every task that was ever posted
TaskSnapshotStale(flt) ==
    SelectSeq(<<TaskMsg(1, "A1", {"B1"}), TaskMsg(2, "B1", {"A1"})>>,
              LAMBDA v : v.id \in txes /\ TaskFilterMatches(flt, v))

\* the initial vector: the values of the map that match the filter
TaskSnapshot(flt) ==
    SelectSeq(ValuesOf(tasks, IdOrder), LAMBDA v : TaskFilterMatches(flt, v))

Reject(w, status) == [w EXCEPT !.pc = "done", !.status = status, !.exit = "rejected"]

\* up to the end of the read-lock block: snapshot and new_task_tx.subscribe()
GetTasksStart(l, caller, q, block) ==
    /\ listers[l].pc = "idle"
    /\ tasks_lock = "free"
    /\ LET flt == FilterOf(caller, q)
           w == [listers[l] EXCEPT !.caller = caller, !.q = q, !.block = block]
       IN  listers' = [listers EXCEPT ![l] =
              IF flt.from = None /\ flt.to = None THEN Reject(w, 400)
              ELSE IF ListUnauthorized(flt, caller) THEN Reject(w, 401)
              ELSE [w EXCEPT !.pc = "snap", !.vec = TaskSnapshot(flt),
                             !.snap_ids =
                                 {id \in DOMAIN tasks : TaskFilterMatches(flt, tasks[id])},
                             !.gone = txes \ DOMAIN tasks]]
    /\ resp' = NoResp
    /\ UNCHANGED <<tasks, txes, readers, created, accepted, nPost, nPut, nDel>>
    /\ UNCHANGED <<sockVars, proxyVars, lockVars, otherVars>>

\* removed_task_rx.subscribe() is an argument of wait_for_elements_task,
\* evaluated after the read lock is gone
GetTasksSubscribe(l) ==
    /\ listers[l].pc = "snap"
    /\ listers' = [listers EXCEPT ![l].pc = "waiting"]
    /\ resp' = NoResp
    /\ UNCHANGED <<tasks, txes, readers, created, accepted, nPost, nPut, nDel>>
    /\ UNCHANGED <<sockVars, proxyVars, lockVars, otherVars>>

ListStep(l, w) ==
    /\ listers[l].pc = "waiting"
    /\ listers' = [listers EXCEPT ![l] = w]
    /\ resp' = NoResp
    /\ UNCHANGED <<tasks, txes, readers, created, accepted, nPost, nPut, nDel>>
    /\ UNCHANGED <<sockVars, proxyVars, lockVars, otherVars>>

\* the while condition fails on the count
ListLoopExit(l) ==
    /\ ~StillWanted(listers[l])
    /\ ListStep(l, Respond(listers[l], "count"))

\* (mutant) the deadline never ends the loop
ListTimeoutNever(l) == FALSE

\* select!: sleep_until(wait_until) => break
ListTimeout(l) ==
    /\ StillWanted(listers[l])
    /\ ListStep(l, Respond(listers[l], "deadline"))

\* select!: new_element_rx.recv() => Ok(req)
ListRecvNew(l) ==
    LET w == listers[l] IN
    /\ StillWanted(w)
    /\ w.rx_new # <<>>
    /\ "new" \notin w.lagged
    /\ ListStep(l, [w EXCEPT
          !.rx_new = Tail(@),
          !.vec = WaiterPush(@, Head(w.rx_new),
                             TaskFilterMatches(FilterOf(w.caller, w.q), Head(w.rx_new)))])

\* select!: deleted_task_rx.recv() => Ok(deleted_task_id)
ListRecvDeleted(l) ==
    LET w == listers[l] IN
    /\ StillWanted(w)
    /\ w.rx_del # <<>>
    /\ "del" \notin w.lagged
    /\ ListStep(l, [w EXCEPT !.rx_del = Tail(@),
                             !.vec = RetainOthers(@, Head(w.rx_del))])

\* select!: a recv() => Err(Lagged(_)): panic!
ListRecvLagged(l) ==
    LET w == listers[l] IN
    /\ StillWanted(w)
    /\ w.lagged # {}
    /\ ListStep(l, [w EXCEPT !.pc = "panicked"])

(***************************************************************************)
(* GET /v1/tasks/:task_id/results (long-poll)                              *)
(***************************************************************************)
\* task.msg.results.values().cloned().collect()
ResultSnapshot(task) == ValuesOf(task.results, AppOrder)

\* filter_for_me: MsgFilterNoTask { from: None, to: Some(caller), mode: Or }
FilterForMe(caller, req) == FilterOr(None, caller, req)

\* (mutant) anybody may read the results of a task
ResultsUnauthorizedNobody(task, caller) == FALSE

\* task.get_from() != msg.get_from()
ResultsUnauthorized(task, caller) == task.from # caller

\* the read-lock block (404, 401, snapshot, both subscriptions); a request
\* that would not wait answers at once
GetResultsStart(r, caller, task_id, block) ==
    /\ readers[r].pc = "idle"
    /\ tasks_lock = "free"
    /\ LET w == [readers[r] EXCEPT !.caller = caller, !.task_id = task_id, !.block = block]
       IN  readers' = [readers EXCEPT ![r] =
              IF task_id \notin DOMAIN tasks THEN Reject(w, 404)
              ELSE IF ResultsUnauthorized(tasks[task_id], caller) THEN Reject(w, 401)
              ELSE LET snap == [w EXCEPT !.vec = ResultSnapshot(tasks[task_id]),
                                         !.snap_keys = DOMAIN tasks[task_id].results,
                                         !.owed = tasks[task_id].results]
                   IN  IF WouldWaitForElements(Len(snap.vec), block)
                       THEN IF task_id \in txes
                            THEN [snap EXCEPT !.pc = "waiting"]
                            ELSE [snap EXCEPT !.pc = "panicked"]
                       ELSE Respond(snap, "count")]
    /\ resp' = NoResp
    /\ UNCHANGED <<tasks, txes, listers, created, accepted, nPost, nPut, nDel>>
    /\ UNCHANGED <<sockVars, proxyVars, lockVars, otherVars>>

ReadStep(r, w) ==
    /\ readers[r].pc = "waiting"
    /\ ~readers[r].sse
    /\ readers' = [readers EXCEPT ![r] = w]
    /\ resp' = NoResp
    /\ UNCHANGED <<tasks, txes, listers, created, accepted, nPost, nPut, nDel>>
    /\ UNCHANGED <<sockVars, proxyVars, lockVars, otherVars>>

ReadLoopExit(r) ==
    /\ ~StillWanted(readers[r])
    /\ ReadStep(r, Respond(readers[r], "count"))

ReadTimeout(r) ==
    /\ StillWanted(readers[r])
    /\ ReadStep(r, Respond(readers[r], "deadline"))

\* select!: new_result_rx.recv() => Ok(req)
ReadRecvNew(r) ==
    LET w == readers[r] IN
    /\ StillWanted(w)
    /\ w.rx_new # <<>>
    /\ "new" \notin w.lagged
    /\ ReadStep(r, [w EXCEPT
          !.rx_new = Tail(@),
          !.vec = WaiterPush(@, Head(w.rx_new), FilterForMe(w.caller, Head(w.rx_new)))])

\* select!: new_result_rx.recv() => Err(Closed): panic!
ReadRecvClosed(r) ==
    LET w == readers[r] IN
    /\ StillWanted(w)
    /\ w.rx_new = <<>>
    /\ w.closed
    /\ ReadStep(r, [w EXCEPT !.pc = "panicked"])

\* select!: deleted_task_rx.recv() => Ok(id): return if it is the watched task
ReadRecvDeleted(r) ==
    LET w == readers[r] IN
    /\ StillWanted(w)
    /\ w.rx_del # <<>>
    /\ "del" \notin w.lagged
    /\ ReadStep(r, IF Head(w.rx_del) = w.task_id
                   THEN Respond([w EXCEPT !.rx_del = Tail(@)], "deleted")
                   ELSE [w EXCEPT !.rx_del = Tail(@)])

\* select!: a recv() => Err(Lagged(_)): panic!
ReadRecvLagged(r) ==
    LET w == readers[r] IN
    /\ StillWanted(w)
    /\ w.lagged # {}
    /\ ReadStep(r, [w EXCEPT !.pc = "panicked"])

(***************************************************************************)
(* GET /v1/tasks/:task_id/results with Accept: text/event-stream           *)
(***************************************************************************)
\* an event without a result in its data (wait_expired, deleted_task)
SseEvent(type, from) == [event |-> type, from |-> from, data |-> <<>>]

\* Event::default().event(event_type).json_data(&req)
SseResultEvent(type, req) == [event |-> type, from |-> req.from, data |-> <<req>>]

\* (mutant) every live result is announced as new
SseEventTypeAlwaysNew(previous) == "new_result"

\* match previous { Some(_) => UpdatedResult, None => NewResult }
SseEventType(previous) == IF previous THEN "updated_result" ELSE "new_result"

\* (mutant) the stream counts its events, not its workers
StreamStillWantedEvents(w) == CountOf(w.block) > Len(w.events)

\* the stream's loop condition on the count
StreamStillWanted(w) == CountOf(w.block) > Cardinality(DOMAIN w.results)

\* the stream is over: nothing more is yielded
StreamEnd(w, why) == [w EXCEPT !.pc = "done", !.exit = why, !.subscribed = FALSE]

\* for (_from, result) in &results: one new_result event per snapshot entry
ReplayEvents(results) ==
    LET vals == ValuesOf(results, AppOrder)
    IN  [i \in 1..Len(vals) |-> SseResultEvent("new_result", vals[i])]

\* the read-lock block of the stream handler; Ok(sse) answers 200
GetStreamStart(r, caller, task_id, block) ==
    /\ readers[r].pc = "idle"
    /\ tasks_lock = "free"
    /\ LET w == [readers[r] EXCEPT !.caller = caller, !.task_id = task_id,
                                   !.block = block, !.sse = TRUE]
       IN  readers' = [readers EXCEPT ![r] =
              IF task_id \notin DOMAIN tasks THEN Reject(w, 404)
              ELSE IF ResultsUnauthorized(tasks[task_id], caller) THEN Reject(w, 401)
              ELSE LET snap == [w EXCEPT !.results = tasks[task_id].results,
                                         !.snap_keys = DOMAIN tasks[task_id].results,
                                         !.owed = tasks[task_id].results]
                   IN  IF WouldWaitForElements(Cardinality(DOMAIN snap.results), block)
                       THEN IF task_id \in txes
                            THEN [snap EXCEPT !.pc = "replay", !.status = 200,
                                              !.subscribed = TRUE]
                            ELSE [snap EXCEPT !.pc = "panicked"]
                       ELSE [snap EXCEPT !.pc = "replay", !.status = 200]]
    /\ resp' = NoResp
    /\ UNCHANGED <<tasks, txes, listers, created, accepted, nPost, nPut, nDel>>
    /\ UNCHANGED <<sockVars, proxyVars, lockVars, otherVars>>

StreamStep(r, w) ==
    /\ readers[r].sse
    /\ readers' = [readers EXCEPT ![r] = w]
    /\ resp' = NoResp
    /\ UNCHANGED <<tasks, txes, listers, created, accepted, nPost, nPut, nDel>>
    /\ UNCHANGED <<sockVars, proxyVars, lockVars, otherVars>>

\* the snapshot is replayed; without a receiver the stream then ends
StreamReplay(r) ==
    LET w == readers[r]
        played == [w EXCEPT !.events = @ \o ReplayEvents(w.results)]
    IN  /\ w.pc = "replay"
        /\ StreamStep(r, IF w.subscribed
                         THEN [played EXCEPT !.pc = "waiting"]
                         ELSE StreamEnd(played, "ended"))

\* the while condition fails on the count: the stream ends
StreamLoopExit(r) ==
    LET w == readers[r] IN
    /\ w.pc = "waiting"
    /\ ~StreamStillWanted(w)
    /\ StreamStep(r, StreamEnd(w, "count"))

\* the deadline: sleep_until fires inside select! (wait_expired is yielded),
\* or it has passed when the while condition is evaluated (nothing is)
StreamTimeout(r) ==
    LET w == readers[r] IN
    /\ w.pc = "waiting"
    /\ StreamStillWanted(w)
    /\ \E in_select \in BOOLEAN :
          StreamStep(r, IF in_select
                        THEN StreamEnd([w EXCEPT !.events =
                                           Append(@, SseEvent("wait_expired", None))],
                                       "deadline")
                        ELSE StreamEnd(w, "late"))

\* select!: new_result_rx.recv() => Ok(req)
StreamRecvNew(r) ==
    LET w == readers[r]
        req == Head(w.rx_new)
    IN  /\ w.pc = "waiting"
        /\ StreamStillWanted(w)
        /\ w.rx_new # <<>>
        /\ StreamStep(r,
              IF FilterForMe(w.caller, req)
              THEN [w EXCEPT !.rx_new = Tail(@),
                             !.results = MapPut(@, req.from, req),
                             !.events = Append(@, SseResultEvent(
                                 SseEventType(req.from \in DOMAIN w.results), req))]
              ELSE [w EXCEPT !.rx_new = Tail(@)])

\* select!: new_result_rx.recv() => Err(Closed): panic!
StreamRecvClosed(r) ==
    LET w == readers[r] IN
    /\ w.pc = "waiting"
    /\ StreamStillWanted(w)
    /\ w.rx_new = <<>>
    /\ w.closed
    /\ StreamStep(r, [w EXCEPT !.pc = "panicked", !.subscribed = FALSE])

\* select!: deleted_task_rx.recv() => Ok(id)
StreamRecvDeleted(r) ==
    LET w == readers[r] IN
    /\ w.pc = "waiting"
    /\ StreamStillWanted(w)
    /\ w.rx_del # <<>>
    /\ StreamStep(r,
          IF Head(w.rx_del) = w.task_id
          THEN StreamEnd([w EXCEPT !.rx_del = Tail(@),
                                   !.events = Append(@, SseEvent("deleted_task", None))],
                         "deleted")
          ELSE [w EXCEPT !.rx_del = Tail(@)])

\* the client goes away: the stream is dropped where it stands
StreamDisconnect(r) ==
    LET w == readers[r] IN
    /\ w.pc \in {"replay", "waiting"}
    /\ StreamStep(r, [w EXCEPT !.pc = "gone", !.subscribed = FALSE])

(***************************************************************************)
(* A send on removed_task_rx.  No code under src/ sends on this channel    *)
(* (the sweeper is not handed it); SpecWaiter adds a sender so that the    *)
(* receivers' deletion branches are exercised.                             *)
(***************************************************************************)
RemovedTaskSend(id) ==
    /\ nDel < MaxDels
    /\ nDel' = nDel + 1
    /\ listers' = [l \in Listers |->
                     IF listers[l].pc = "waiting"
                     THEN [listers[l] EXCEPT !.rx_del = Append(@, id)]
                     ELSE listers[l]]
    /\ readers' = [r \in Readers |->
                     IF Subscribed(readers[r])
                     THEN [readers[r] EXCEPT !.rx_del = Append(@, id)]
                     ELSE readers[r]]
    /\ resp' = NoResp
    /\ UNCHANGED <<tasks, txes, created, accepted, nPost, nPut>>
    /\ UNCHANGED <<sockVars, proxyVars, lockVars, otherVars>>

(***************************************************************************)
(* Specifications.                                                         *)
(***************************************************************************)
\* the GET /v1/tasks requests the registry specifications issue: caller, query
ListRequests ==
    {<<"B1", [from |-> "B1", to |-> "B1", filter |-> None]>>,
     <<"B1", [from |-> None, to |-> None, filter |-> "todo"]>>,
     <<"A1", [from |-> "A1", to |-> None, filter |-> None]>>}

\* the PUTs that matter to a lister: B1 answering task 1
ListPutRequests ==
    {<<1, "B1", ResultMsg("B1", {"A1"}, 1, st)>> : st \in PutStatuses}
\* the GET /v1/tasks/:id/results requests they issue: caller, task id
ReadRequests == {<<"A1", 1>>, <<"B1", 1>>, <<"B1", 2>>}

RegistryNext ==
    \/ \E msg \in PostInputs : PostTask(msg)
    \/ \E id \in TaskIds : Expire(id)
    \/ \E req \in PutRequests : PutResult(req[1], req[2], req[3])

ListerNext ==
    \/ \E l \in Listers, rq \in ListRequests, b \in SomeBlocks :
          GetTasksStart(l, rq[1], rq[2], b)
    \/ \E l \in Listers : GetTasksSubscribe(l)
    \/ \E l \in Listers : ListLoopExit(l)
    \/ \E l \in Listers : ListTimeout(l)
    \/ \E l \in Listers : ListRecvNew(l)

ReaderNext ==
    \/ \E r \in Readers, rq \in ReadRequests, b \in SomeBlocks :
          GetResultsStart(r, rq[1], rq[2], b)
    \/ \E r \in Readers : ReadLoopExit(r)
    \/ \E r \in Readers : ReadTimeout(r)
    \/ \E r \in Readers : ReadRecvNew(r)
    \/ \E r \in Readers : ReadRecvClosed(r)

\* the registry with its result readers
Next == RegistryNext \/ ReaderNext

\* the registry with its task listers
NextList ==
    \/ \E msg \in PostInputs : PostTask(msg)
    \/ \E id \in TaskIds : Expire(id)
    \/ \E req \in ListPutRequests : PutResult(req[1], req[2], req[3])
    \/ ListerNext

Spec == Init /\ [][Next]_vars

SpecList == Init /\ [][NextList]_vars

\* the two waiter loops fed by a registry reduced to what feeds them (two
\* tasks, one worker's result) and by a sender on removed_task_rx
WaiterBlocks ==
    {[wait_count |-> <<1>>, wait_time |-> <<>>], [wait_count |-> <<2>>, wait_time |-> <<"t">>]}

NextWaiter ==
    \/ \E msg \in {TaskMsg(1, "A1", {"B1"}), TaskMsg(2, "B1", {"A1"})} : PostTask(msg)
    \/ PutResult(1, "B1", ResultMsg("B1", {"A1"}, 1, "Succeeded"))
    \/ \E id \in TaskIds : RemovedTaskSend(id)
    \/ \E l \in Listers, b \in WaiterBlocks :
          GetTasksStart(l, "B1", [from |-> "B1", to |-> "B1", filter |-> None], b)
    \/ \E l \in Listers :
          \/ GetTasksSubscribe(l)
          \/ ListLoopExit(l)
          \/ ListTimeout(l)
          \/ ListRecvNew(l)
          \/ ListRecvDeleted(l)
    \/ \E r \in Readers, b \in WaiterBlocks : GetResultsStart(r, "A1", 1, b)
    \/ \E r \in Readers :
          \/ ReadLoopExit(r)
          \/ ReadTimeout(r)
          \/ ReadRecvNew(r)
          \/ ReadRecvDeleted(r)

SpecWaiter == Init /\ [][NextWaiter]_vars

(***************************************************************************)
(* The result stream against one task with two workers.                    *)
(***************************************************************************)
StreamBlocks ==
    {NoBlock, [wait_count |-> <<1>>, wait_time |-> <<>>],
     [wait_count |-> <<2>>, wait_time |-> <<"t">>]}

StreamPutInputs ==
    {ResultMsg("B1", {"A1"}, 1, "Succeeded"), ResultMsg("C1", {"A1"}, 1, "Succeeded"),
     ResultMsg("B1", {"C1"}, 1, "TempFailed")}

NextStream ==
    \/ PostTask(TaskMsg(1, "A1", {"B1", "C1"}))
    \/ Expire(1)
    \/ \E res \in StreamPutInputs : PutResult(res.task, res.from, res)
    \/ RemovedTaskSend(1)
    \/ \E r \in Readers, c \in {"A1", "B1"}, b \in StreamBlocks : GetStreamStart(r, c, 1, b)
    \/ \E r \in Readers, c \in {"A1", "B1"} : GetResultsStart(r, c, 1, NoBlock)
    \/ \E r \in Readers :
          \/ StreamReplay(r)
          \/ StreamLoopExit(r)
          \/ StreamTimeout(r)
          \/ StreamRecvNew(r)
          \/ StreamRecvClosed(r)
          \/ StreamRecvDeleted(r)
          \/ StreamDisconnect(r)

SpecStream == Init /\ [][NextStream]_vars

(***************************************************************************)
(* Expiry under a fairly scheduled sweeper: a live task's ttl runs out and *)
(* the sweeper, once the ttl is over, gets to remove it.                   *)
(***************************************************************************)
NextExpiry ==
    \/ \E msg \in PostInputs : PostTask(msg)
    \/ \E id \in TaskIds : Expire(id)
    \/ \E req \in PutRequests : PutResult(req[1], req[2], req[3])
    \/ \E r \in Readers, req \in ReadRequests : GetResultsStart(r, req[1], req[2], NoBlock)
    \/ \E r \in Readers, req \in ReadRequests : GetStreamStart(r, req[1], req[2], NoBlock)
    \/ \E r \in Readers : StreamReplay(r)

SpecExpiry == Init /\ [][NextExpiry]_vars /\ \A id \in TaskIds : WF_vars(Expire(id))

(***************************************************************************)
(* Sockets: POST /v1/sockets and the rendezvous of GET /v1/sockets/:id.    *)
(***************************************************************************)
SocketMsg(id, from, to) == [id |-> id, from |-> from, to |-> to]

SocketInputs == {SocketMsg(1, "A1", {"B1"}), SocketMsg(2, "B1", {"A1", "C1"})}

\* TaskManager::post_task: Conflict if the id is present
PostSocketRequest(msg) ==
    /\ nSocket < MaxSockets
    /\ nSocket' = nSocket + 1
    /\ task_manager' = IF msg.id \in DOMAIN task_manager
                          THEN task_manager
                          ELSE MapPut(task_manager, msg.id, msg)
    /\ UNCHANGED <<waiting_connections, connectors, tunnels>>
    /\ UNCHANGED <<taskVars, proxyVars, lockVars, otherVars>>

\* the socket task's ttl runs out
ExpireSocket(id) ==
    /\ id \in DOMAIN task_manager
    /\ task_manager' = MapRemove(task_manager, id)
    /\ UNCHANGED <<waiting_connections, connectors, tunnels, nSocket>>
    /\ UNCHANGED <<taskVars, proxyVars, lockVars, otherVars>>

\* (mutant) anybody may connect
ConnectAuthorizedAnyone(task, from) == TRUE

\* Allowed to connect are the issuer of the task and the recipient
ConnectAuthorized(task, from) == task.from = from \/ from \in task.to

\* (mutant) the waiting connection is never found
WaitingRemoveNone(wc, id) == <<>>

\* waiting_cons.remove(&task_id)
WaitingRemove(wc, id) == IF id \in DOMAIN wc THEN <<wc[id]>> ELSE <<>>

\* connect_socket up to the upgrade check: 404, 401, 426 or on to the lock
ConnectCheck(c, caller, task_id, upgrade) ==
    /\ connectors[c].pc = "idle"
    /\ LET status == IF task_id \notin DOMAIN task_manager THEN 404
                     ELSE IF ~ConnectAuthorized(task_manager[task_id], caller) THEN 401
                     ELSE IF ~upgrade THEN 426
                     ELSE 0
       IN  connectors' = [connectors EXCEPT ![c] =
               [@ EXCEPT !.pc = IF status = 0 THEN "ready" ELSE "done",
                         !.caller = caller, !.task_id = task_id, !.upgrade = upgrade,
                         !.admitted = (status = 0), !.status = status]]
    /\ UNCHANGED <<task_manager, waiting_connections, tunnels, nSocket>>
    /\ UNCHANGED <<taskVars, proxyVars, lockVars, otherVars>>

\* connect_socket under waiting_connections.write(): hand this request to the
\* parked one (500 if its receiver is gone), or park
ConnectRendezvous(c) ==
    /\ connectors[c].pc = "ready"
    /\ LET id == connectors[c].task_id
           req_sender == WaitingRemove(waiting_connections, id)
       IN  IF req_sender # <<>>
              THEN LET p == req_sender[1]
                       alive == connectors[p].pc = "parked"
                   IN  /\ waiting_connections' = MapRemove(waiting_connections, id)
                       /\ connectors' =
                            [connectors EXCEPT
                                ![c] = [@ EXCEPT !.pc = "done",
                                                 !.status = IF alive THEN 101 ELSE 500],
                                ![p] = IF alive THEN [@ EXCEPT !.other_req = <<c>>] ELSE @]
              ELSE /\ waiting_connections' = MapPut(waiting_connections, id, c)
                   /\ connectors' = [connectors EXCEPT ![c] = [@ EXCEPT !.pc = "parked"]]
    /\ UNCHANGED <<task_manager, tunnels, nSocket>>
    /\ UNCHANGED <<taskVars, proxyVars, lockVars, otherVars>>

\* the parked connect_socket resumes from rx.await: with the other request it
\* removes the task, spawns the relay and answers 101; with its Sender dropped
\* it answers 410
ConnectResume(c) ==
    /\ connectors[c].pc = "parked"
    /\ LET w == connectors[c]
           id == w.task_id
           held == id \in DOMAIN waiting_connections /\ waiting_connections[id] = c
       IN  IF w.other_req # <<>>
              THEN /\ task_manager' = MapRemove(task_manager, id)
                   /\ tunnels' = tunnels \cup {[id |-> id, req |-> c, other_req |-> w.other_req[1]]}
                   /\ connectors' = [connectors EXCEPT ![c] =
                                        [@ EXCEPT !.pc = "done", !.status = 101]]
              ELSE /\ ~held
                   /\ connectors' = [connectors EXCEPT ![c] =
                                        [@ EXCEPT !.pc = "done", !.status = 410]]
                   /\ UNCHANGED <<task_manager, tunnels>>
    /\ UNCHANGED <<waiting_connections, nSocket>>
    /\ UNCHANGED <<taskVars, proxyVars, lockVars, otherVars>>

\* the parked client goes away: its handler is dropped at rx.await and the
\* entry stays in waiting_connections
ConnectDisconnect(c) ==
    /\ connectors[c].pc = "parked"
    /\ connectors[c].other_req = <<>>
    /\ connectors' = [connectors EXCEPT ![c] = [@ EXCEPT !.pc = "gone"]]
    /\ UNCHANGED <<task_manager, waiting_connections, tunnels, nSocket>>
    /\ UNCHANGED <<taskVars, proxyVars, lockVars, otherVars>>

NextSockets ==
    \/ \E msg \in SocketInputs : PostSocketRequest(msg)
    \/ \E id \in SockIds : ExpireSocket(id)
    \/ \E c \in Connectors, caller \in Apps, id \in SockIds, upgrade \in BOOLEAN :
          ConnectCheck(c, caller, id, upgrade)
    \/ \E c \in Connectors : ConnectRendezvous(c)
    \/ \E c \in Connectors : ConnectResume(c)
    \/ \E c \in Connectors : ConnectDisconnect(c)

SpecSockets == Init /\ [][NextSockets]_vars

\* the same with the handlers scheduled fairly: a handler that can take its
\* next step takes it; clients arrive, leave and post as they please
SpecSocketsFair ==
    /\ SpecSockets
    /\ \A c \in Connectors : WF_vars(ConnectRendezvous(c)) /\ WF_vars(ConnectResume(c))

\* one socket task and the two apps it names, with the handlers scheduled
\* fairly
NextPairing ==
    \/ PostSocketRequest(SocketMsg(1, "A1", {"B1"}))
    \/ ExpireSocket(1)
    \/ \E c \in Connectors, caller \in {"A1", "B1"}, upgrade \in BOOLEAN :
          ConnectCheck(c, caller, 1, upgrade)
    \/ \E c \in Connectors : ConnectRendezvous(c)
    \/ \E c \in Connectors : ConnectResume(c)
    \/ \E c \in Connectors : ConnectDisconnect(c)

SpecPairing ==
    /\ Init
    /\ [][NextPairing]_vars
    /\ \A c \in Connectors : WF_vars(ConnectRendezvous(c)) /\ WF_vars(ConnectResume(c))

(***************************************************************************)
(* The proxy: forward_request (proxy/src/serve_tasks.rs).  A local app,    *)
(* authenticated as `sender`, hands the proxy a body; the proxy parses it, *)
(* checks its `from`, encrypts it, signs it and sends it to the broker.    *)
(***************************************************************************)
LocalApps == {"A1", "B1"}

\* PlainMessage::MsgEmpty(MsgEmpty { from: sender.into() })
MsgEmpty(from) == [type |-> "MsgEmpty", from |-> from, to |-> {}, body |-> None]

\* a PlainMessage as a local app writes it
PlainMsg(type, from, to) == [type |-> type, from |-> from, to |-> to, body |-> "plain"]

\* a body that does not parse as a PlainMessage
NotJson == [type |-> "NotJson"]

\* request bodies: empty (<<>>), not JSON, or a message naming some `from`
ProxyBodies ==
    {<<>>, <<NotJson>>}
    \cup {<<PlainMsg(t, f, {"C1"})>> : t \in {"MsgTaskRequest", "MsgTaskResult"}, f \in Apps}

\* serde_json::from_slice(&body): Err for what is not a message
ParseBody(body) == IF body[1].type = "NotJson" THEN <<>> ELSE <<body[1]>>

\* (mutant) the sanity check is gone
FakedFromNever(msg, sender) == FALSE

\* msg.get_from() != sender
FakedFrom(msg, sender) == msg.from # sender

\* encrypt_msg: the body is encrypted to the recipients' keys; from and to
\* stay in the clear (an empty message has nothing to encrypt)
EncryptMsg(msg) ==
    [msg EXCEPT !.body = IF msg.type = "MsgEmpty" THEN None ELSE "cipher"]

\* sign_request: the JWT of the encrypted message, and the extended
\* signature, which covers the message's `from`
SignRequest(enc) == [jwt |-> enc, digest_from |-> enc.from]

ProxyResp(sender, body, status, sent) ==
    [sender |-> sender, body |-> body, status |-> status, sent |-> sent]

\* forward_request for the app `sender`; `keys` and `signing` say whether
\* the recipients' keys could be had and whether signing worked, `upstream`
\* is the status of the broker's answer (502 if the request to it failed)
ForwardRequest(sender, body, keys, signing, upstream) ==
    /\ nForward < MaxForwards
    /\ nForward' = nForward + 1
    /\ LET parsed == IF body = <<>> THEN <<MsgEmpty(sender)>> ELSE ParseBody(body)
       IN  IF parsed = <<>>
           THEN /\ proxy_resp' = ProxyResp(sender, body, 400, FALSE)
                /\ outbox' = outbox
           ELSE IF FakedFrom(parsed[1], sender)
           THEN /\ proxy_resp' = ProxyResp(sender, body, 401, FALSE)
                /\ outbox' = outbox
           ELSE IF ~keys \/ ~signing
           THEN /\ proxy_resp' = ProxyResp(sender, body, 500, FALSE)
                /\ outbox' = outbox
           ELSE /\ proxy_resp' = ProxyResp(sender, body, upstream, TRUE)
                /\ outbox' = Append(outbox, SignRequest(EncryptMsg(parsed[1])))
    /\ UNCHANGED <<taskVars, sockVars, lockVars, otherVars>>

NextProxy ==
    \E sender \in LocalApps, body \in ProxyBodies, keys \in BOOLEAN, signing \in BOOLEAN,
       upstream \in {201, 502} :
        ForwardRequest(sender, body, keys, signing, upstream)

SpecProxy == Init /\ [][NextProxy]_vars

(***************************************************************************)
(* get_tasks as a function of the task map and the request: the map is     *)
(* drawn from the maps PUTs can build, every request is issued against it. *)
(***************************************************************************)
\* the result maps workers `ws` can have built on task `id`
ResultMaps(id, ws) ==
    {m \in UNION {[d -> WorkStatus] : d \in SUBSET ws} : TRUE}

StoredTask(id, from, to, sts) ==
    [id |-> id, from |-> from, to |-> to,
     results |-> [k \in DOMAIN sts |-> ResultMsg(k, {from}, id, sts[k])]]

FilterTasks1 ==
    {StoredTask(1, f, to, sts) :
        f \in {"A1", "B1"}, to \in {{"B1"}, {"A1", "C1"}}, sts \in ResultMaps(1, {"A1", "B1"})}

FilterTasks2 == {TaskMsg(2, "B1", {"A1"}), TaskMsg(2, "C1", {"B1"})}

FilterMaps ==
    {EmptyMap}
    \cup {MapPut(EmptyMap, 1, t) : t \in {u \in FilterTasks1 : DOMAIN u.results \subseteq u.to}}
    \cup {MapPut(MapPut(EmptyMap, 1, t), 2, t2) :
            t \in {u \in FilterTasks1 : DOMAIN u.results \subseteq u.to}, t2 \in FilterTasks2}

InitFilter ==
    /\ InitSockets
    /\ InitProxy
    /\ InitLock
    /\ InitConfig
    /\ InitRw
    /\ InitMonitor
    /\ tasks \in FilterMaps
    /\ txes = DOMAIN tasks
    /\ listers = [l \in Listers |-> IdleLister]
    /\ readers = [r \in Readers |-> IdleReader]
    /\ resp = NoResp
    /\ created = [id \in TaskIds |-> IF id \in DOMAIN tasks THEN 1 ELSE 0]
    /\ accepted = [id \in TaskIds |-> IF id \in DOMAIN tasks THEN DOMAIN tasks[id].results ELSE {}]
    /\ nPost = 0
    /\ nPut = 0
    /\ nDel = 0

FilterBlocks ==
    {[wait_count |-> <<>>, wait_time |-> <<>>], [wait_count |-> <<2>>, wait_time |-> <<"t">>]}

NextFilter ==
    \/ \E l \in Listers, c \in Apps, q \in ListQueries, b \in FilterBlocks :
          GetTasksStart(l, c, q, b)
    \/ \E l \in Listers : GetTasksSubscribe(l)
    \/ \E l \in Listers : ListLoopExit(l)
    \/ \E l \in Listers : ListTimeout(l)

SpecFilter == InitFilter /\ [][NextFilter]_vars

(***************************************************************************)
(* The two long-polls under a stream of events that never ends: the        *)
(* senders of the three broadcast channels, seen from the receivers.  A    *)
(* channel keeps MaxQueue values per receiver; a value sent to a receiver  *)
(* that holds that many overwrites the oldest, and the receiver has lagged.*)
(***************************************************************************)
\* tx.send(el) as the receiver of w's new-element channel sees it
SendNew(w, el) ==
    IF Len(w.rx_new) < MaxQueue
    THEN [w EXCEPT !.rx_new = Append(@, el)]
    ELSE [w EXCEPT !.rx_new = Append(Tail(@), el), !.lagged = @ \cup {"new"}]

\* new_task_tx.send(msg.clone())
TaskArrives(msg) ==
    /\ listers' = [l \in Listers |->
                     IF listers[l].pc \in {"snap", "waiting"}
                     THEN SendNew(listers[l], msg)
                     ELSE listers[l]]
    /\ resp' = NoResp
    /\ UNCHANGED <<tasks, txes, readers, created, accepted, nPost, nPut, nDel>>
    /\ UNCHANGED <<sockVars, proxyVars, lockVars, otherVars>>

\* sender.send(result) on the channel of result.task
ResultArrives(result) ==
    /\ readers' = [r \in DOMAIN readers |->
                     IF Subscribed(readers[r]) /\ readers[r].task_id = result.task
                     THEN SendNew(readers[r], result)
                     ELSE readers[r]]
    /\ resp' = NoResp
    /\ UNCHANGED <<tasks, txes, listers, created, accepted, nPost, nPut, nDel>>
    /\ UNCHANGED <<sockVars, proxyVars, lockVars, otherVars>>

\* a send on removed_task_rx; the stream of deletions does not overrun its
\* receivers
DeletionArrives(id) ==
    /\ \A l \in Listers : Len(listers[l].rx_del) < MaxQueue
    /\ \A r \in DOMAIN readers : Len(readers[r].rx_del) < MaxQueue
    /\ listers' = [l \in Listers |->
                     IF listers[l].pc = "waiting"
                     THEN [listers[l] EXCEPT !.rx_del = Append(@, id)]
                     ELSE listers[l]]
    /\ readers' = [r \in DOMAIN readers |->
                     IF Subscribed(readers[r])
                     THEN [readers[r] EXCEPT !.rx_del = Append(@, id)]
                     ELSE readers[r]]
    /\ resp' = NoResp
    /\ UNCHANGED <<tasks, txes, created, accepted, nPost, nPut, nDel>>
    /\ UNCHANGED <<sockVars, proxyVars, lockVars, otherVars>>

\* one live task, issued by A1, addressed to B1 and C1 and answered by C1
DeadlineTask == StoredTask(1, "A1", {"B1", "C1"}, [k \in {"C1"} |-> "Claimed"])

InitDeadline ==
    /\ InitSockets
    /\ InitProxy
    /\ InitLock
    /\ InitConfig
    /\ InitRw
    /\ InitMonitor
    /\ tasks = MapPut(EmptyMap, 1, DeadlineTask)
    /\ txes = {1}
    /\ listers = [l \in Listers |-> IdleLister]
    /\ readers = [r \in Readers |-> IdleReader]
    /\ resp = NoResp
    /\ created = [id \in TaskIds |-> IF id = 1 THEN 1 ELSE 0]
    /\ accepted = [id \in TaskIds |-> IF id = 1 THEN {"C1"} ELSE {}]
    /\ nPost = 0
    /\ nPut = 0
    /\ nDel = 0

\* the requests supply wait_time and want one item more than their snapshot
\* holds
DeadlineBlock == [wait_count |-> <<2>>, wait_time |-> <<"t">>]

\* the tasks that arrive: one that matches B1's listing and one that does not
DeadlineTasks == {TaskMsg(2, "A1", {"B1"}), TaskMsg(2, "B1", {"A1"})}

\* the results that arrive: one addressed to the reader A1 and one that is not
DeadlineResults == {ResultMsg("B1", {"A1"}, 1, "Succeeded"), ResultMsg("C1", {"B1"}, 1, "Claimed")}

NextDeadline ==
    \/ \E l \in Listers :
          GetTasksStart(l, "B1", [from |-> None, to |-> "B1", filter |-> None], DeadlineBlock)
    \/ \E l \in Listers :
          \/ GetTasksSubscribe(l)
          \/ ListLoopExit(l)
          \/ ListTimeout(l)
          \/ ListRecvNew(l)
          \/ ListRecvDeleted(l)
          \/ ListRecvLagged(l)
    \/ \E r \in Readers : GetResultsStart(r, "A1", 1, DeadlineBlock)
    \/ \E r \in Readers :
          \/ ReadLoopExit(r)
          \/ ReadTimeout(r)
          \/ ReadRecvNew(r)
          \/ ReadRecvDeleted(r)
          \/ ReadRecvLagged(r)
    \/ \E msg \in DeadlineTasks : TaskArrives(msg)
    \/ \E result \in DeadlineResults : ResultArrives(result)
    \/ DeletionArrives(2)

\* time passes: a handler in its loop gets to see its deadline (sleep_until
\* becomes ready, and the while condition compares the clock)
SpecDeadline ==
    /\ InitDeadline
    /\ [][NextDeadline]_vars
    /\ \A l \in Listers : WF_vars(ListTimeout(l)) /\ WF_vars(ListLoopExit(l))
    /\ \A r \in Readers : WF_vars(ReadTimeout(r)) /\ WF_vars(ReadLoopExit(r))

(***************************************************************************)
(* put_result step by step against the handlers that take a snapshot.      *)
(***************************************************************************)
PutOrderRequests ==
    {<<res.task, res.from, res>> : res \in StreamPutInputs} \cup
    {<<1, "A1", ResultMsg("A1", {"A1"}, 1, "Succeeded")>>,
     <<2, "B1", ResultMsg("B1", {"A1"}, 1, "Succeeded")>>}

NextPutOrder ==
    \/ PostTask(TaskMsg(1, "A1", {"B1", "C1"}))
    \/ \E req \in PutOrderRequests : PutBegin(req[1], req[2], req[3])
    \/ PutLock
    \/ PutInsert
    \/ PutNotify
    \/ PutReturn
    \/ PutAgain
    \/ \E r \in Readers, b \in WaiterBlocks : GetResultsStart(r, "A1", 1, b)
    \/ \E r \in Readers :
          \/ ReadLoopExit(r)
          \/ ReadTimeout(r)
          \/ ReadRecvNew(r)
    \/ \E l \in Listers :
          GetTasksStart(l, "B1", [from |-> None, to |-> None, filter |-> "todo"], NoBlock)
    \/ \E l \in Listers : GetTasksSubscribe(l) \/ ListLoopExit(l)

SpecPutOrder == Init /\ [][NextPutOrder]_vars

(***************************************************************************)
(* The two waiter loops fed, one arrival at a time, with items that match, *)
(* that do not match, and that carry a wait_id the buffer holds already (a *)
(* task id posted again, a result put again).                              *)
(***************************************************************************)
DedupTasks == {TaskMsg(1, "A1", {"B1"}), TaskMsg(2, "A1", {"B1"}), TaskMsg(2, "B1", {"A1"})}

DedupResults ==
    {ResultMsg("C1", {"A1"}, 1, "Succeeded"), ResultMsg("B1", {"A1"}, 1, "Succeeded"),
     ResultMsg("C1", {"B1"}, 1, "Succeeded")}

NextDedup ==
    \/ \E l \in Listers :
          GetTasksStart(l, "B1", [from |-> None, to |-> "B1", filter |-> None], DeadlineBlock)
    \/ \E l \in Listers :
          \/ GetTasksSubscribe(l)
          \/ ListLoopExit(l)
          \/ ListTimeout(l)
          \/ ListRecvNew(l)
    \/ \E r \in Readers : GetResultsStart(r, "A1", 1, DeadlineBlock)
    \/ \E r \in Readers :
          \/ ReadLoopExit(r)
          \/ ReadTimeout(r)
          \/ ReadRecvNew(r)
    \/ \E msg \in DedupTasks :
          (\A l \in Listers : listers[l].rx_new = <<>>) /\ TaskArrives(msg)
    \/ \E result \in DedupResults :
          (\A r \in Readers : readers[r].rx_new = <<>>) /\ ResultArrives(result)

SpecDedup == InitDeadline /\ [][NextDedup]_vars

\* the same with deletions, of the task both requests hold and of another
NextDeletion ==
    \/ NextDedup
    \/ \E id \in TaskIds :
          /\ \A l \in Listers : listers[l].rx_del = <<>>
          /\ \A r \in Readers : readers[r].rx_del = <<>>
          /\ DeletionArrives(id)
    \/ \E l \in Listers : ListRecvDeleted(l)
    \/ \E r \in Readers : ReadRecvDeleted(r)

SpecDeletion == InitDeadline /\ [][NextDeletion]_vars

(***************************************************************************)
(* A long-poll and a stream of the same caller on the same task, started   *)
(* with the same block and fed the same events: a value sent on a channel  *)
(* reaches both receivers, the next is sent when both have taken it, and   *)
(* the deadline comes to a handler that has taken what was sent.           *)
(***************************************************************************)
Poller == "R1"
Streamer == "S1"
Both == {Poller, Streamer}

InitBoth ==
    /\ InitSockets
    /\ InitProxy
    /\ InitLock
    /\ InitConfig
    /\ InitRw
    /\ InitMonitor
    /\ tasks = MapPut(EmptyMap, 1, DeadlineTask)
    /\ txes = {1}
    /\ listers = [l \in Listers |-> IdleLister]
    /\ readers = [r \in Both |-> IdleReader]
    /\ resp = NoResp
    /\ created = [id \in TaskIds |-> IF id = 1 THEN 1 ELSE 0]
    /\ accepted = [id \in TaskIds |-> IF id = 1 THEN {"C1"} ELSE {}]
    /\ nPost = 0
    /\ nPut = 0
    /\ nDel = 0

\* the results that arrive: a newer one of the worker in the snapshot, two of
\* another worker, and one that is not addressed to the caller
BothResults ==
    {ResultMsg("C1", {"A1"}, 1, "Succeeded"), ResultMsg("B1", {"A1"}, 1, "Succeeded"),
     ResultMsg("B1", {"A1"}, 1, "TempFailed"), ResultMsg("B1", {"C1"}, 1, "Succeeded")}

\* the receivers of the request hold nothing
QueuesEmpty(w) == w.rx_new = <<>> /\ w.rx_del = <<>>

\* both requests hold their receivers and have taken what was sent; the
\* stream has sent fewer than MaxEvents events
BothListening ==
    /\ \A r \in Both : Subscribed(readers[r]) /\ QueuesEmpty(readers[r])
    /\ Len(readers[Streamer].events) < MaxEvents

\* the other request has not been issued or was issued with this block
SameBlock(r, b) == readers[r].pc = "idle" \/ readers[r].block = b

NextBoth ==
    \/ \E b \in StreamBlocks : SameBlock(Streamer, b) /\ GetResultsStart(Poller, "A1", 1, b)
    \/ \E b \in StreamBlocks : SameBlock(Poller, b) /\ GetStreamStart(Streamer, "A1", 1, b)
    \/ StreamReplay(Streamer)
    \/ ReadLoopExit(Poller)
    \/ StreamLoopExit(Streamer)
    \/ QueuesEmpty(readers[Poller]) /\ ReadTimeout(Poller)
    \/ QueuesEmpty(readers[Streamer]) /\ StreamTimeout(Streamer)
    \/ ReadRecvNew(Poller)
    \/ StreamRecvNew(Streamer)
    \/ ReadRecvDeleted(Poller)
    \/ StreamRecvDeleted(Streamer)
    \/ \E result \in BothResults : BothListening /\ ResultArrives(result)
    \/ \E id \in TaskIds : BothListening /\ DeletionArrives(id)

SpecBoth == InitBoth /\ [][NextBoth]_vars

(***************************************************************************)
(* The proxy's configuration: parse_apikeys over the process environment.  *)
(* Slot i of `environ` holds APP_i_ID and APP_i_KEY, each an Option.       *)
(***************************************************************************)
AppNames == {"app1", "app2"}
ApiKeyValues == {"", "App1Secret", "App2Secret"}
ProxyIdOfConfig == "proxy.broker"

EnvSlots ==
    [id : {<<>>} \cup {<<a>> : a \in AppNames}, key : {<<>>} \cup {<<k>> : k \in ApiKeyValues}]

\* vars.get(&format!("APP_{i}_ID")), None where the environment sets nothing
EnvGet(i) == IF i \in DOMAIN environ THEN environ[i] ELSE [id |-> <<>>, key |-> <<>>]

\* AppId::new(&format!("{app_id}.{proxy_id}"))
AppIdNew(app_id, proxy_id) == <<app_id, proxy_id>>

\* (mutant) no key counts as empty
ApiKeyIsEmptyNever(api_key) == FALSE

\* api_key.is_empty()
ApiKeyIsEmpty(api_key) == api_key = ""

InitApikeys ==
    /\ InitSockets
    /\ InitProxy
    /\ InitLock
    /\ InitRw
    /\ InitMonitor
    /\ tasks = EmptyMap
    /\ txes = {}
    /\ listers = [l \in Listers |-> IdleLister]
    /\ readers = [r \in Readers |-> IdleReader]
    /\ resp = NoResp
    /\ created = [id \in TaskIds |-> 0]
    /\ accepted = [id \in TaskIds |-> {}]
    /\ nPost = 0
    /\ nPut = 0
    /\ nDel = 0
    /\ environ \in [0..(MaxApps - 1) -> EnvSlots]
    /\ scan = NotParsed

ScanUnchanged == UNCHANGED <<environ, taskVars, sockVars, proxyVars, lockVars, rwVars, monVars>>

\* parse_apikeys is called: api_keys = HashMap::new(), i = 0
ParseApikeys ==
    /\ scan.pc = "idle"
    /\ scan' = [scan EXCEPT !.pc = "scanning"]
    /\ ScanUnchanged

\* one turn of the while let: APP_i_ID is set; with APP_i_KEY set the pair is
\* inserted, or the empty key is refused; i += 1
ScanIndex ==
    LET slot == EnvGet(scan.i) IN
    /\ scan.pc = "scanning"
    /\ slot.id # <<>>
    /\ scan' = IF slot.key = <<>>
               THEN [scan EXCEPT !.i = @ + 1]
               ELSE IF ApiKeyIsEmpty(slot.key[1])
               THEN [scan EXCEPT !.pc = "done", !.err = "ConfigurationFailed"]
               ELSE [scan EXCEPT !.i = @ + 1,
                                 !.api_keys = MapPut(@, AppIdNew(slot.id[1], ProxyIdOfConfig),
                                                     slot.key[1])]
    /\ ScanUnchanged

\* APP_i_ID is not set: Ok(api_keys)
ScanEnd ==
    /\ scan.pc = "scanning"
    /\ EnvGet(scan.i).id = <<>>
    /\ scan' = [scan EXCEPT !.pc = "done"]
    /\ ScanUnchanged

NextApikeys ==
    \/ ParseApikeys
    \/ ScanIndex
    \/ ScanEnd

SpecApikeys == InitApikeys /\ [][NextApikeys]_vars

(***************************************************************************)
(* The two RwLocks of TasksState, tasks and new_result_tx, and the lock    *)
(* steps of the handlers.  tokio's RwLock is fair: requests are served in  *)
(* the order they were made, a read when nobody writes, a write when       *)
(* nobody holds the lock.                                                  *)
(***************************************************************************)
LockStep(l, mode) == [op |-> "lock", lock |-> l, mode |-> mode]
UnlockStep(l) == [op |-> "unlock", lock |-> l, mode |-> "none"]
\* the handler awaits a channel or a timer
SuspendStep == [op |-> "recv", lock |-> "none", mode |-> "none"]

\* (mutant) post_task takes the sender map's lock first
PostTaskStepsReversed ==
    <<LockStep("new_result_tx", "write"), LockStep("tasks", "write"),
      UnlockStep("tasks"), UnlockStep("new_result_tx")>>

\* post_task: tasks.write(), new_result_tx.write(), both dropped at the end
\* of the block (the conflict returns from inside it)
PostTaskSteps ==
    <<LockStep("tasks", "write"), LockStep("new_result_tx", "write"),
      UnlockStep("new_result_tx"), UnlockStep("tasks")>>

\* put_result: tasks.write() kept to the end; 404 and 401 return before
\* new_result_tx.read()
PutResultSteps ==
    {<<LockStep("tasks", "write"), UnlockStep("tasks")>>,
     <<LockStep("tasks", "write"), LockStep("new_result_tx", "read"),
       UnlockStep("new_result_tx"), UnlockStep("tasks")>>}

\* the result GETs: tasks.read(); 404, 401 or nothing to wait for end the
\* block; else new_result_tx.read() for subscribe(), and the wait follows
\* the block
GetResultsSteps ==
    {<<LockStep("tasks", "read"), UnlockStep("tasks")>>,
     <<LockStep("tasks", "read"), LockStep("new_result_tx", "read"),
       UnlockStep("new_result_tx"), UnlockStep("tasks"), SuspendStep>>}

\* get_tasks: tasks.read() for the snapshot, then wait_for_elements_task
GetTasksSteps == {<<LockStep("tasks", "read"), UnlockStep("tasks"), SuspendStep>>}

\* expire::watch: a removal under the task map's lock (between two of them
\* the sweeper sleeps or receives, holding nothing)
WatchSteps == {<<LockStep("tasks", "write"), UnlockStep("tasks")>>}

StepsOf(h) ==
    IF h = "post_task" THEN {PostTaskSteps}
    ELSE IF h = "put_result" THEN PutResultSteps
    ELSE IF h \in {"get_results", "get_stream"} THEN GetResultsSteps
    ELSE IF h = "get_tasks" THEN GetTasksSteps
    ELSE WatchSteps

\* the step the handler is at
StepAt(h) ==
    LET w == handlers[h]
    IN  IF w.pc \in DOMAIN w.plan THEN w.plan[w.pc] ELSE [op |-> "none", lock |-> "none", mode |-> "none"]

RwUnchanged == UNCHANGED <<taskVars, sockVars, proxyVars, lockVars, cfgVars, monVars>>

\* a request arrives (or the sweeper starts its next round)
HandlerBegin(h, plan) ==
    /\ handlers[h].pc = 0
    /\ handlers' = [handlers EXCEPT ![h] = [plan |-> plan, pc |-> 1, queued |-> FALSE]]
    /\ UNCHANGED rwlocks
    /\ RwUnchanged

\* lock.read() / lock.write(): the request joins the lock's queue
LockRequest(h) ==
    LET st == StepAt(h) IN
    /\ st.op = "lock"
    /\ ~handlers[h].queued
    /\ rwlocks' = [rwlocks EXCEPT ![st.lock].queue = Append(@, [h |-> h, mode |-> st.mode])]
    /\ handlers' = [handlers EXCEPT ![h].queued = TRUE]
    /\ RwUnchanged

\* on to the next step; after the last one the handler returns
Advance(w) == IF w.pc = Len(w.plan) THEN IdleHandler ELSE [w EXCEPT !.pc = @ + 1]

\* the first request of the queue can be served
CanGrant(l) ==
    /\ rwlocks[l].queue # <<>>
    /\ IF Head(rwlocks[l].queue).mode = "read"
       THEN \A x \in rwlocks[l].holders : x.mode = "read"
       ELSE rwlocks[l].holders = {}

\* .await returns the guard
LockGrant(l) ==
    /\ CanGrant(l)
    /\ LET first == Head(rwlocks[l].queue)
       IN  /\ rwlocks' = [rwlocks EXCEPT ![l] = [holders |-> @.holders \cup {first},
                                                 queue |-> Tail(@.queue)]]
           /\ handlers' = [handlers EXCEPT ![first.h] =
                              Advance([@ EXCEPT !.queued = FALSE])]
    /\ RwUnchanged

\* the guard is dropped
LockRelease(h) ==
    LET st == StepAt(h) IN
    /\ st.op = "unlock"
    /\ rwlocks' = [rwlocks EXCEPT ![st.lock].holders = {x \in @ : x.h # h}]
    /\ handlers' = [handlers EXCEPT ![h] = Advance(@)]
    /\ RwUnchanged

\* what the handler awaited has come: an item, a deletion, its deadline
HandlerRecv(h) ==
    /\ StepAt(h).op = "recv"
    /\ handlers' = [handlers EXCEPT ![h] = Advance(@)]
    /\ UNCHANGED rwlocks
    /\ RwUnchanged

NextRw ==
    \/ \E h \in Handlers : \E plan \in StepsOf(h) : HandlerBegin(h, plan)
    \/ \E h \in Handlers : LockRequest(h)
    \/ \E l \in DOMAIN rwlocks : LockGrant(l)
    \/ \E h \in Handlers : LockRelease(h)
    \/ \E h \in Handlers : HandlerRecv(h)

SpecRw == Init /\ [][NextRw]_vars

(***************************************************************************)
(* The registry with both result GETs asking for more than the task holds, *)
(* so that each looks up the task's Sender.                                *)
(***************************************************************************)
NextSender ==
    \/ PostTask(TaskMsg(1, "A1", {"B1", "C1"}))
    \/ Expire(1)
    \/ \E res \in StreamPutInputs : PutResult(res.task, res.from, res)
    \/ \E r \in Readers, b \in StreamBlocks : GetResultsStart(r, "A1", 1, b)
    \/ \E r \in Readers, b \in StreamBlocks : GetStreamStart(r, "A1", 1, b)

SpecSender == Init /\ [][NextSender]_vars

(***************************************************************************)
(* The same feed for requests of every block: one that asks for nothing,   *)
(* one that asks for what its snapshot holds, one that waits.              *)
(***************************************************************************)
NextBound ==
    \/ NextDeletion
    \/ \E l \in Listers, b \in StreamBlocks :
          GetTasksStart(l, "B1", [from |-> None, to |-> "B1", filter |-> None], b)
    \/ \E r \in Readers, b \in StreamBlocks : GetResultsStart(r, "A1", 1, b)

SpecBound == InitDeadline /\ [][NextBound]_vars

(***************************************************************************)
(* The proxy's monitor: stream_recorded_tasks and Monitorer::send, each    *)
(* atomic load, store and channel operation a step of its own.             *)
(***************************************************************************)
MonUnchanged == UNCHANGED <<taskVars, sockVars, proxyVars, lockVars, cfgVars, rwVars>>

\* the clients that hold a Receiver of task_sender
Receiving == {c \in MonClients : subscribers[c].pc = "subscribed"}

\* MONITORER.start_recording()
StartRecording(c) ==
    /\ subscribers[c].pc = "idle"
    /\ should_record' = TRUE
    /\ subscribers' = [subscribers EXCEPT ![c].pc = "started"]
    /\ UNCHANGED <<senders, nSend>>
    /\ MonUnchanged

\* MONITORER.get_receiver(): task_sender.subscribe()
GetReceiver(c) ==
    /\ subscribers[c].pc = "started"
    /\ subscribers' = [subscribers EXCEPT ![c].pc = "subscribed"]
    /\ UNCHANGED <<should_record, senders, nSend>>
    /\ MonUnchanged

\* receiver.recv().await yields an update, which becomes an event
MonitorRecv(c) ==
    /\ subscribers[c].pc = "subscribed"
    /\ subscribers[c].rx # <<>>
    /\ subscribers' = [subscribers EXCEPT ![c] =
                          [@ EXCEPT !.rx = Tail(@), !.got = Append(@, Head(subscribers[c].rx))]]
    /\ UNCHANGED <<should_record, senders, nSend>>
    /\ MonUnchanged

\* the monitoring client goes away: the stream and its Receiver are dropped
MonitorDisconnect(c) ==
    /\ subscribers[c].pc = "subscribed"
    /\ subscribers' = [subscribers EXCEPT ![c] = [@ EXCEPT !.pc = "gone", !.rx = <<>>]]
    /\ UNCHANGED <<should_record, senders, nSend>>
    /\ MonUnchanged

\* Monitorer::send is called: should_record.load(); false returns at once
SendLoad(s) ==
    /\ senders[s].pc = "idle"
    /\ nSend < MaxSends
    /\ nSend' = nSend + 1
    /\ senders' = [senders EXCEPT ![s] =
                      IF should_record
                      THEN [pc |-> "loaded", update |-> nSend + 1]
                      ELSE IdleSender]
    /\ UNCHANGED <<should_record, subscribers>>
    /\ MonUnchanged

\* task_sender.send(update): Err if no Receiver exists
SendUpdate(s) ==
    /\ senders[s].pc = "loaded"
    /\ IF Receiving = {}
       THEN /\ senders' = [senders EXCEPT ![s].pc = "failed"]
            /\ UNCHANGED subscribers
       ELSE /\ senders' = [senders EXCEPT ![s] = IdleSender]
            /\ subscribers' = [c \in MonClients |->
                                  IF c \in Receiving
                                  THEN [subscribers[c] EXCEPT !.rx = Append(@, senders[s].update)]
                                  ELSE subscribers[c]]
    /\ UNCHANGED <<should_record, nSend>>
    /\ MonUnchanged

\* MONITORER.stop_recording() after the failed send
StopRecording(s) ==
    /\ senders[s].pc = "failed"
    /\ should_record' = FALSE
    /\ senders' = [senders EXCEPT ![s] = IdleSender]
    /\ UNCHANGED <<subscribers, nSend>>
    /\ MonUnchanged

NextMonitor ==
    \/ \E c \in MonClients : StartRecording(c)
    \/ \E c \in MonClients : GetReceiver(c)
    \/ \E c \in MonClients : MonitorRecv(c)
    \/ \E c \in MonClients : MonitorDisconnect(c)
    \/ \E s \in MonSenders : SendLoad(s)
    \/ \E s \in MonSenders : SendUpdate(s)
    \/ \E s \in MonSenders : StopRecording(s)

SpecMonitor == Init /\ [][NextMonitor]_vars

(***************************************************************************)
(* POST /v1/tasks against a registry with a long-poll on task 1 and a      *)
(* listing of B1's tasks in flight.                                        *)
(***************************************************************************)
NextConflict ==
    \/ \E msg \in PostInputs : PostTask(msg)
    \/ \E res \in StreamPutInputs : PutResult(res.task, res.from, res)
    \/ \E r \in Readers, b \in StreamBlocks : GetResultsStart(r, "A1", 1, b)
    \/ \E r \in Readers : ReadRecvNew(r)
    \/ \E l \in Listers, b \in StreamBlocks :
          GetTasksStart(l, "B1", [from |-> None, to |-> "B1", filter |-> None], b)
    \/ \E l \in Listers : GetTasksSubscribe(l)
    \/ \E l \in Listers : ListRecvNew(l)

SpecConflict == Init /\ [][NextConflict]_vars

(***************************************************************************)
(* Properties.                                                             *)
(***************************************************************************)
\* what a handler can change of the registry and of what waiters were sent
Registry == <<tasks, txes, listers, readers>>

\* C1: while an id is live exactly one POST of it has answered 201, a POST
\* answers 201 or 409, and a POST of an id that is live answers 409.
C1_IdUniqueness ==
    /\ \A id \in TaskIds : created[id] = IF id \in DOMAIN tasks THEN 1 ELSE 0
    /\ resp.op = "post" => resp.status \in {201, 409}
    /\ resp.op = "post" /\ resp.status = 409 => resp.id \in DOMAIN tasks

\* a second POST of a live id was refused, after the id had been re-used
C1_Witness ==
    /\ resp.op = "post" /\ resp.status = 409
    /\ created[resp.id] = 1
    /\ nPost >= 3

\* C2 as stated: every PUT on a live task whose result.from is not in the
\* task's `to` answers 401 and leaves the registry as it was.
C2_Original ==
    [][(resp'.op = "put" /\ resp'.id \in DOMAIN tasks /\ resp'.from \notin tasks[resp'.id].to)
            => (resp'.status = 401 /\ Registry' = Registry)]_vars

\* C2 amended: such a PUT answers 401 when its path agrees with the envelope
\* and 400 when it does not, and in both cases the registry is as it was.
C2_UnauthorizedWriter ==
    [][(resp'.op = "put" /\ resp'.id \in DOMAIN tasks /\ resp'.from \notin tasks[resp'.id].to)
            => /\ resp'.status =
                    IF resp'.id = resp'.task /\ resp'.app = resp'.from THEN 401 ELSE 400
               /\ Registry' = Registry]_vars

\* a PUT by a worker outside a live task's `to` was answered 401
C2_Witness ==
    /\ resp.op = "put" /\ resp.status = 401
    /\ resp.id \in DOMAIN tasks /\ resp.from \notin tasks[resp.id].to

\* C3: an accepted PUT answers 201 if it is the first accepted one of that
\* worker for the task and 204 otherwise; afterwards the worker's entry is the
\* result just put and the other workers' entries are as before.
C3_ResultIdempotence ==
    [][(resp'.op = "put" /\ resp'.status \in {201, 204})
            => LET id == resp'.id
                   w == resp'.from
               IN  /\ resp'.status = IF w \in accepted[id] THEN 204 ELSE 201
                   /\ DOMAIN tasks'[id].results = DOMAIN tasks[id].results \cup {w}
                   /\ tasks'[id].results[w] = resp'.msg
                   /\ \A k \in DOMAIN tasks[id].results \ {w} :
                         tasks'[id].results[k] = tasks[id].results[k]]_vars

\* a worker put again on the same task: answered 204, and the body of this
\* PUT is what the map holds
C3_Witness ==
    /\ resp.op = "put" /\ resp.status = 204
    /\ tasks[resp.id].results[resp.from] = resp.msg
    /\ nPut >= 2

\* C7: every entry k -> r of a live task's result map has k in the task's
\* `to`, r.from = k and r.task = the task's id.
C7_ResultMapInvariant ==
    \A id \in DOMAIN tasks :
        \A k \in DOMAIN tasks[id].results :
            /\ k \in tasks[id].to
            /\ tasks[id].results[k].from = k
            /\ tasks[id].results[k].task = id

\* a task holds results of two workers
C7_Witness ==
    \E id \in DOMAIN tasks : Cardinality(DOMAIN tasks[id].results) = 2

\* the readers whose request got past the 404 and 401 checks and did not panic
Served(w) == w.pc \in {"waiting", "done"} /\ w.exit # "rejected"

\* C5: a result reader misses nothing: every worker of its snapshot still has
\* an item in the buffer, and the latest result it is owed of each worker (from
\* the snapshot, or accepted later and addressed to the caller while it was
\* waiting on the live task) is in its buffer or was delivered to its receiver.
C5_ResultCompleteness ==
    \A r \in Readers :
        LET w == readers[r] IN
        Served(w) =>
            /\ \A k \in w.snap_keys :
                  \E i \in DOMAIN w.vec : ResultWaitId(w.vec[i]) = <<w.task_id, k>>
            /\ \A k \in DOMAIN w.owed :
                  w.owed[k] \in Range(w.vec) \cup Range(w.rx_new)

\* a reader returned a result that was accepted after its snapshot
C5_Witness ==
    \E r \in Readers :
        LET w == readers[r] IN
        /\ w.pc = "done" /\ w.exit = "count"
        /\ \E k \in DOMAIN w.owed \ w.snap_keys : w.owed[k] \in Range(w.vec)

\* the ids a lister holds in its buffer, and the ids of the matching tasks
\* delivered to its receiver and not yet taken
BufferIds(w) == {TaskWaitId(w.vec[i]) : i \in DOMAIN w.vec}

PendingIds(w) ==
    {TaskWaitId(w.rx_new[i]) : i \in {j \in DOMAIN w.rx_new :
        TaskFilterMatches(FilterOf(w.caller, w.q), w.rx_new[j])}}

\* C4: a lister loses no task: every matching task of its snapshot and every
\* matching task posted after the snapshot while the request was in flight is
\* in its buffer or was delivered to its receiver (where it stays only if the
\* waiter stopped first); the buffer never holds two tasks with one wait_id.
C4_SnapshotSubscribeCompleteness ==
    \A l \in Listers :
        LET w == listers[l] IN
        (w.pc \in {"snap", "waiting", "done"} /\ w.exit # "rejected") =>
            /\ w.snap_ids \subseteq BufferIds(w)
            /\ w.owed \subseteq BufferIds(w) \cup PendingIds(w)
            /\ (w.pc \in {"snap", "waiting"} /\ w.rx_new = <<>>) => w.owed \subseteq BufferIds(w)
            /\ \A i, j \in DOMAIN w.vec :
                  TaskWaitId(w.vec[i]) = TaskWaitId(w.vec[j]) => i = j

\* a lister returned a snapshot task together with a task posted afterwards
C4_Witness ==
    \E l \in Listers :
        LET w == listers[l] IN
        /\ w.pc = "done" /\ w.exit = "count" /\ w.status = 200
        /\ w.snap_ids # {}
        /\ (w.owed \ w.snap_ids) \cap BufferIds(w) # {}

\* C6: a long-poll (task listing or results) answers 206 if it returns fewer
\* items than wait_count (absent: 0) and 200 otherwise, whatever ended the
\* wait: the count, the deadline, or the deletion of the watched task.
C6_PartialContent ==
    /\ \A l \in Listers :
          LET w == listers[l] IN
          (w.pc = "done" /\ w.exit # "rejected") =>
              w.status = IF Len(w.vec) < CountOf(w.block) THEN 206 ELSE 200
    /\ \A r \in Readers :
          LET w == readers[r] IN
          (w.pc = "done" /\ w.exit # "rejected") =>
              w.status = IF Len(w.vec) < CountOf(w.block) THEN 206 ELSE 200

\* a result long-poll that held one of two wanted results was ended by the
\* deletion of its task and answered 206, and a listing had answered 200
C6_Witness ==
    /\ \E r \in Readers :
          LET w == readers[r] IN
          /\ w.pc = "done" /\ w.exit = "deleted" /\ w.status = 206
          /\ Len(w.vec) = 1 /\ CountOf(w.block) = 2
    /\ \E l \in Listers :
          LET w == listers[l] IN
          w.pc = "done" /\ w.status = 200 /\ Len(w.vec) >= 1 /\ CountOf(w.block) >= 1

\* the connectors that got past the authorization and upgrade checks on `id`
Admitted(id) == {c \in Connectors : connectors[c].admitted /\ connectors[c].task_id = id}

\* C8: when exactly two connectors were admitted to a socket task and neither
\* went away, none of them is answered anything but 101, no relay joins
\* anything but the two, and once both are answered exactly one relay exists
\* and it joins them.
C8_SocketPairing ==
    \A id \in SockIds :
        LET two == Admitted(id)
            mine == {t \in tunnels : t.id = id}
        IN  (Cardinality(two) = 2 /\ \A c \in two : connectors[c].pc # "gone") =>
               /\ \A c \in two : connectors[c].status \in {0, 101}
               /\ \A t \in mine : {t.req, t.other_req} = two
               /\ Cardinality(mine) <= 1
               /\ (\A c \in two : connectors[c].pc = "done") => Cardinality(mine) = 1

\* two connectors, the issuer and a recipient, were both answered 101 and one
\* relay joins them
C8_Witness ==
    \E id \in SockIds :
        /\ Cardinality(Admitted(id)) = 2
        /\ \A c \in Admitted(id) : connectors[c].pc = "done" /\ connectors[c].status = 101
        /\ {connectors[c].caller : c \in Admitted(id)} = {"A1", "B1"}
        /\ \E t \in tunnels : t.id = id /\ {t.req, t.other_req} = Admitted(id)

\* C9 as stated: GET /v1/tasks answers 401 exactly when the caller is neither
\* the supplied `from` nor the supplied `to`.
C9_Original ==
    \A l \in Listers :
        LET w == listers[l] IN
        w.pc # "idle" => (w.status = 401 <=> (w.q.from # w.caller /\ w.q.to # w.caller))

\* C9 amended: it answers 401 exactly when a supplied `from` or `to` is not
\* the caller, and 400 exactly when neither is supplied and filter=todo (which
\* makes `to` the caller) is absent.
C9_ListAuthorization ==
    \A l \in Listers :
        LET w == listers[l] IN
        w.pc # "idle" =>
            /\ w.status = 401 <=> \/ (w.q.from # None /\ w.q.from # w.caller)
                                  \/ (w.q.to # None /\ w.q.to # w.caller)
            /\ w.status = 400 <=> (w.q.from = None /\ w.q.to = None /\ w.q.filter = None)

\* a caller naming itself as `from` and somebody else as `to` was refused
C9_Witness ==
    \E l \in Listers :
        LET w == listers[l] IN
        w.status = 401 /\ w.q.from = w.caller /\ w.q.to \notin {None, w.caller}

\* C10: under filter=todo a task is returned iff it meets the from/to
\* condition (`to` being the caller when absent) and the caller has no result
\* on it, or one whose status is Claimed or TempFailed.
C10_TodoFilter ==
    \A l \in Listers :
        LET w == listers[l]
            to == IF w.q.to = None THEN w.caller ELSE w.q.to
        IN  (w.pc \in {"snap", "waiting", "done"} /\ w.exit # "rejected" /\ w.q.filter = "todo") =>
               \A id \in DOMAIN tasks :
                  LET t == tasks[id]
                      fromTo == (w.q.from # None /\ t.from = w.q.from) \/ to \in t.to
                      open == \/ w.caller \notin DOMAIN t.results
                              \/ t.results[w.caller].status \in {"Claimed", "TempFailed"}
                  IN  id \in BufferIds(w) <=> (fromTo /\ open)

\* a todo listing without `to` returned a task the caller had answered
\* TempFailed
C10_Witness ==
    \E l \in Listers :
        LET w == listers[l] IN
        /\ w.pc = "done" /\ w.status = 200 /\ w.q.filter = "todo" /\ w.q.to = None
        /\ \E id \in DOMAIN tasks :
              /\ w.caller \in DOMAIN tasks[id].results
              /\ tasks[id].results[w.caller].status = "TempFailed"
              /\ id \in BufferIds(w)

\* C11: a result read (long-poll or stream) of an id that is not a live task
\* answers 404, one by a caller who is not the task's issuer answers 401; a
\* request answered 404 or 401 holds no result, no event and no receiver, and
\* nothing that happens later reaches it.
C11_ResultReadAuthorization ==
    [][\A r \in Readers :
          LET w == readers[r]
              n == readers'[r]
          IN  /\ (w.pc = "idle" /\ n.pc # "idle") =>
                    /\ n.task_id \notin DOMAIN tasks => n.status = 404
                    /\ (n.task_id \in DOMAIN tasks /\ tasks[n.task_id].from # n.caller) =>
                          n.status = 401
                    /\ n.status \in {404, 401} =>
                          /\ n.pc = "done" /\ ~Subscribed(n)
                          /\ n.vec = <<>> /\ n.results = EmptyMap /\ n.events = <<>>
                          /\ n.rx_new = <<>> /\ n.rx_del = <<>>
              /\ w.status \in {404, 401} => n = w]_vars

\* a stream request by a recipient of a task that has results was answered 401
C11_Witness ==
    \E r \in Readers :
        LET w == readers[r] IN
        /\ w.sse /\ w.status = 401
        /\ w.task_id \in DOMAIN tasks
        /\ w.caller \in tasks[w.task_id].to
        /\ tasks[w.task_id].results # EmptyMap

\* C12: a connect to a live socket task by a caller who is neither its `from`
\* nor in its `to` is answered 401 and leaves the waiting connections and the
\* relays as they were; a connector answered 401 is never parked, never
\* paired and never resumed.
C12_ConnectAuthorization ==
    [][\A c \in Connectors :
          LET w == connectors[c]
              n == connectors'[c]
          IN  /\ (/\ w.pc = "idle" /\ n.pc # "idle"
                  /\ n.task_id \in DOMAIN task_manager
                  /\ task_manager[n.task_id].from # n.caller
                  /\ n.caller \notin task_manager[n.task_id].to) =>
                    /\ n.status = 401 /\ n.pc = "done"
                    /\ waiting_connections' = waiting_connections
                    /\ tunnels' = tunnels
              /\ n.status = 401 =>
                    /\ c \notin Range(waiting_connections')
                    /\ \A t \in tunnels' : c \notin {t.req, t.other_req}
                    /\ n.other_req = <<>>
              /\ w.status = 401 => n = w]_vars

\* a stranger was answered 401 while a connector was parked on the same task
C12_Witness ==
    \E c \in Connectors :
        /\ connectors[c].status = 401
        /\ connectors[c].upgrade
        /\ connectors[c].task_id \in DOMAIN waiting_connections
        /\ connectors[waiting_connections[connectors[c].task_id]].pc = "parked"

\* C13 as stated: a task listing or a result read whose HowLongToBlock has
\* neither wait_count nor wait_time is not served (it is answered 400).
C13_Original ==
    /\ \A l \in Listers :
          (listers[l].pc = "done" /\ listers[l].block = NoBlock) =>
              listers[l].status \notin {200, 206}
    /\ \A r \in Readers :
          (readers[r].pc = "done" /\ readers[r].block = NoBlock) =>
              readers[r].status \notin {200, 206}

\* C14 as stated: when the sweeper removes a task, every request that holds
\* receivers for that task is sent the task's id on the deleted-task channel.
C14_Original ==
    [][\A id \in DOMAIN tasks \ DOMAIN tasks' :
          \A r \in Readers :
              (Subscribed(readers[r]) /\ readers[r].task_id = id) =>
                  id \in Range(readers'[r].rx_del)]_vars

\* what C15 says of the answers once a task is gone: a result read of an id
\* that is not live answers 404, and so does a PUT (`strict`), or so does a
\* PUT whose path agrees with its envelope while one whose path does not
\* answers 400
GoneAnswers(strict) ==
    /\ \A r \in Readers :
          (readers[r].pc = "idle" /\ readers'[r].pc # "idle"
              /\ readers'[r].task_id \notin DOMAIN tasks) => readers'[r].status = 404
    /\ (nPut' # nPut /\ resp'.id \notin DOMAIN tasks) =>
          resp'.status = IF ~strict /\ (resp'.id # resp'.task \/ resp'.app # resp'.from)
                         THEN 400 ELSE 404

\* every live task is eventually removed
EventuallyExpired == \A id \in TaskIds : (id \in DOMAIN tasks) ~> (id \notin DOMAIN tasks)

\* C15 as stated: every live task is eventually removed, and a result read or
\* a PUT for an id that is not live answers 404.
C15_Original == EventuallyExpired /\ [][GoneAnswers(TRUE)]_vars

\* C15 amended: every live task is eventually removed; a result read of an id
\* that is not live answers 404; a PUT for such an id answers 404 if its path
\* agrees with its envelope and 400 if it does not.
C15_ExpiryLiveness == EventuallyExpired /\ [][GoneAnswers(FALSE)]_vars

\* a PUT for a task that was posted and has expired was answered 404
C15_Witness ==
    /\ resp.op = "put" /\ resp.status = 404
    /\ resp.id \in txes \ DOMAIN tasks

\* C16: a listing holds no task that had been removed when it took its
\* snapshot, neither in its buffer nor among the matching tasks delivered to
\* its receiver, unless that id was posted again while it was in flight.
C16_ExpiryVisibility ==
    \A l \in Listers :
        LET w == listers[l] IN
        (w.pc \in {"snap", "waiting", "done"} /\ w.exit # "rejected") =>
            (BufferIds(w) \cup PendingIds(w)) \cap w.gone \subseteq w.owed

\* a listing that started after a task addressed to the caller was removed
\* waited, received another task and returned without the removed one
C16_Witness ==
    \E l \in Listers :
        LET w == listers[l] IN
        /\ w.pc = "done" /\ w.status = 200 /\ w.caller = "B1" /\ w.q.to = "B1"
        /\ 1 \in w.gone /\ 1 \notin BufferIds(w) /\ 1 \notin DOMAIN tasks
        /\ 2 \in BufferIds(w)

\* C17 as stated: a parked connector does not stay parked forever.
C17_Original ==
    \A c \in Connectors : (connectors[c].pc = "parked") ~> (connectors[c].pc # "parked")

\* the events of a stream that announce a result
ResultEvents == {"new_result", "updated_result"}

\* C18: a stream begins with one new_result event per result of its snapshot;
\* every result event after those is updated_result if an earlier event of the
\* stream carried a result of the same worker and new_result if none did; and
\* the latest result it is owed of each worker (accepted while it held its
\* receiver and addressed to the caller) has an event or is in its receiver.
C18_SseEventOrder ==
    \A r \in Readers :
        LET w == readers[r]
            ev == w.events
            n == Cardinality(w.snap_keys)
        IN  w.sse =>
              /\ (w.pc \in {"waiting", "done"} /\ w.exit # "rejected") =>
                    /\ Len(ev) >= n
                    /\ \A i \in 1..n : ev[i].event = "new_result"
                    /\ {ev[i].from : i \in 1..n} = w.snap_keys
                    /\ \A k \in DOMAIN w.owed :
                          \/ \E i \in DOMAIN ev : ev[i].event \in ResultEvents /\ ev[i].from = k
                          \/ w.owed[k] \in Range(w.rx_new)
              /\ \A i \in DOMAIN ev :
                    ev[i].event \in ResultEvents =>
                        (ev[i].event = "updated_result" <=>
                            \E j \in 1..(i - 1) : ev[j].from = ev[i].from)
              /\ \A i \in DOMAIN ev : ev[i].event \notin ResultEvents => i = Len(ev)

\* a stream replayed B1's result as new_result and then announced B1's next
\* result as updated_result
C18_Witness ==
    \E r \in Readers :
        LET w == readers[r] IN
        /\ w.sse /\ w.snap_keys = {"B1"} /\ Len(w.events) >= 2
        /\ w.events[1].event = "new_result" /\ w.events[1].from = "B1"
        /\ w.events[2].event = "updated_result" /\ w.events[2].from = "B1"

\* C19 as stated: a stream that has ended, other than by the client going
\* away, has wait_expired or deleted_task as its last event.
C19_Original ==
    \A r \in Readers :
        LET w == readers[r] IN
        (w.sse /\ w.pc = "done" /\ w.exit # "rejected") =>
            /\ w.events # <<>>
            /\ w.events[Len(w.events)].event \in {"wait_expired", "deleted_task"}

\* C20 as stated: a request whose receive on a channel failed has been
\* answered 500.
C20_Original ==
    \A r \in Readers : readers[r].pc = "panicked" => readers[r].status = 500

\* C21 as stated: no socket connector is answered 500; in particular not one
\* that arrives after the parked peer has gone away.
C21_Original ==
    \A c \in Connectors : connectors[c].status # 500

\* what C22 says of the requests handed on and of the last answer
ForwardedFromSender ==
    /\ \A i \in DOMAIN outbox :
          /\ outbox[i].jwt.body # "plain"
          /\ outbox[i].jwt.from \in LocalApps
          /\ outbox[i].digest_from = outbox[i].jwt.from
    /\ proxy_resp.sent =>
          /\ outbox # <<>>
          /\ outbox[Len(outbox)].jwt.from = proxy_resp.sender
          /\ proxy_resp.body = <<>> => outbox[Len(outbox)].jwt = MsgEmpty(proxy_resp.sender)
    /\ (proxy_resp.body # <<>> /\ proxy_resp.body[1].type # "NotJson"
            /\ proxy_resp.body[1].from # proxy_resp.sender) =>
          (proxy_resp.status = 401 /\ ~proxy_resp.sent)

\* C22: every request the proxy hands on for the broker carries an encrypted
\* message whose `from`, in the message and under the extended signature, is
\* the authenticated app that sent it; an empty body is handed on as an empty
\* message from that app; a body naming another `from` is answered 401, and
\* the step that answers 401 hands nothing on.
C22_ProxySenderBinding ==
    /\ []ForwardedFromSender
    /\ [][(nForward' # nForward) =>
            /\ Len(outbox') <= Len(outbox) + 1
            /\ \A i \in DOMAIN outbox : outbox'[i] = outbox[i]
            /\ Len(outbox') = Len(outbox) + 1 =>
                  (proxy_resp'.sent /\ outbox'[Len(outbox')].jwt.from = proxy_resp'.sender)
            /\ proxy_resp'.status = 401 => outbox' = outbox]_vars

\* B1's empty body was handed on as an empty message from B1, then B1's task
\* naming A1 as `from` was answered 401
C22_Witness ==
    /\ Len(outbox) = 1
    /\ outbox[1].jwt = MsgEmpty("B1")
    /\ proxy_resp.status = 401 /\ proxy_resp.sender = "B1"
    /\ proxy_resp.body # <<>> /\ proxy_resp.body[1].from = "A1"

SnapshotTaken ==
    \/ \E r \in Readers : readers[r].pc = "idle" /\ readers'[r].pc # "idle"
    \/ \E l \in Listers : listers[l].pc = "idle" /\ listers'[l].pc # "idle"

\* from the lookup to the return put_result holds the write lock
PutHoldsLock == putter.pc \in {"locked", "inserted", "notified"} => tasks_lock = "write"

\* C24: put_result holds the write lock of the task map from its lookup to
\* its return; the step that publishes a result on the task's channel finds
\* it in the task's result map already; and no handler takes a snapshot
\* between the insert and the publish, nor at any time the lock is held.
C24_PutOrdering ==
    /\ []PutHoldsLock
    /\ [][/\ (putter.pc = "inserted" /\ putter'.pc # "inserted") =>
                /\ putter.task_id \in DOMAIN tasks
                /\ putter.result[1].from \in DOMAIN tasks[putter.task_id].results
                /\ tasks[putter.task_id].results[putter.result[1].from] = putter.result[1]
                /\ tasks' = tasks
          /\ SnapshotTaken => putter.pc \notin {"locked", "inserted", "notified"}]_vars

\* a result is in the map and has been published to a reader that waits for
\* it, and put_result has not returned yet
C24_Witness ==
    /\ putter.pc = "notified" /\ tasks_lock = "write"
    /\ \E r \in Readers :
          /\ readers[r].pc = "waiting"
          /\ putter.result[1] \in Range(readers[r].rx_new)
          /\ tasks[1].results[putter.result[1].from] = putter.result[1]

\* no two items of the buffer have one wait_id
NoDuplicates(vec) ==
    \A i, j \in DOMAIN vec : WaitId(vec[i]) = WaitId(vec[j]) => i = j

\* the waiter `w` took the head of its receiver and became `n`: if the item
\* matches, the buffer is the old one without the items of its wait_id,
\* followed by the item; if not, the buffer is the old one
Arrival(w, n, matches) ==
    (w.pc = "waiting" /\ w.rx_new # <<>> /\ n.rx_new = Tail(w.rx_new)) =>
        LET req == Head(w.rx_new)
            kept == SelectSeq(w.vec, LAMBDA el : WaitId(el) # WaitId(req))
        IN  IF matches
            THEN /\ Len(n.vec) = Len(kept) + 1
                 /\ n.vec[Len(n.vec)] = req
                 /\ \A i \in DOMAIN kept : n.vec[i] = kept[i]
            ELSE n.vec = w.vec

\* C25: the buffer of a long-poll never holds two items with one wait_id; an
\* arrival that matches the filter removes the buffered item of its wait_id
\* and is appended last; one that does not match leaves the buffer as it was.
C25_WaiterDedup ==
    /\ [](/\ \A l \in Listers : NoDuplicates(listers[l].vec)
          /\ \A r \in Readers : NoDuplicates(readers[r].vec))
    /\ [][/\ \A l \in Listers :
                Arrival(listers[l], listers'[l],
                        Head(listers[l].rx_new).to \cap {listers[l].q.to} # {})
          /\ \A r \in Readers :
                Arrival(readers[r], readers'[r],
                        readers[r].caller \in Head(readers[r].rx_new).to)]_vars

\* a listing returned the task that arrived under the id of its snapshot's
\* task in that task's place, followed by a task that arrived later, and a
\* result reader returned a worker's later result in place of the one of its
\* snapshot, followed by another worker's
C25_Witness ==
    /\ \E l \in Listers :
          /\ listers[l].pc = "done" /\ listers[l].snap_ids = {1}
          /\ listers[l].vec = <<TaskMsg(1, "A1", {"B1"}), TaskMsg(2, "A1", {"B1"})>>
    /\ \E r \in Readers :
          /\ readers[r].pc = "done" /\ readers[r].snap_keys = {"C1"}
          /\ readers[r].vec = <<ResultMsg("C1", {"A1"}, 1, "Succeeded"),
                                ResultMsg("B1", {"A1"}, 1, "Succeeded")>>

\* the waiter `w` took a deleted id from its receiver and became `n`
DeletionTaken(w, n) ==
    w.pc = "waiting" /\ w.rx_del # <<>> /\ n.rx_del = Tail(w.rx_del)

\* C26: a listing that takes a deleted id keeps waiting with its buffer less
\* the task of that id (at most one), in the order it had; a result reader
\* that takes a deleted id returns at once with its buffer as it is if the id
\* is the one of its task, and keeps waiting with its buffer as it is if not.
C26_DeletionHandling ==
    [][/\ \A l \in Listers :
             LET w == listers[l]
                 n == listers'[l]
             IN  DeletionTaken(w, n) =>
                    /\ n.pc = "waiting"
                    /\ n.vec = SelectSeq(w.vec, LAMBDA el : el.id # Head(w.rx_del))
                    /\ Len(n.vec) >= Len(w.vec) - 1
       /\ \A r \in Readers :
             LET w == readers[r]
                 n == readers'[r]
             IN  DeletionTaken(w, n) =>
                    /\ n.vec = w.vec
                    /\ n.pc = IF Head(w.rx_del) = w.task_id THEN "done" ELSE "waiting"
                    /\ n.pc = "done" =>
                          n.status = (IF Len(n.vec) < CountOf(n.block) THEN 206 ELSE 200)]_vars

\* a listing that held one task waits on with an empty buffer after the
\* task's deletion, and a result reader returned the one result it held when
\* its task was deleted
C26_Witness ==
    /\ \E l \in Listers :
          /\ listers[l].pc = "waiting" /\ listers[l].snap_ids = {1}
          /\ listers[l].vec = <<>> /\ listers[l].rx_del = <<>>
    /\ \E r \in Readers :
          /\ readers[r].pc = "done" /\ readers[r].exit = "deleted"
          /\ Len(readers[r].vec) = 1 /\ readers[r].status = 206

\* the parked connectors that were handed a peer and have not resumed yet
Paired == {c \in Connectors : connectors[c].pc = "parked" /\ connectors[c].other_req # <<>>}

ParkedAwaiting(id) ==
    {c \in Connectors : /\ connectors[c].pc = "parked"
                        /\ connectors[c].task_id = id
                        /\ connectors[c].other_req = <<>>}

\* C28 as stated: waiting_connections has an entry for a socket task id if
\* and only if exactly one live request is parked on that id awaiting its
\* peer, the entry being that request's.
C28_Original ==
    \A id \in SockIds :
        /\ id \in DOMAIN waiting_connections <=> Cardinality(ParkedAwaiting(id)) = 1
        /\ id \in DOMAIN waiting_connections => waiting_connections[id] \in ParkedAwaiting(id)


\* C29 as stated: the ids that own a result channel are the ids of the live
\* tasks, after a removal by expiry as well.
C29_Original ==
    txes = DOMAIN tasks


\* the indices of the events of a stream that carry a result of worker k
EventsOf(ev, k) == {i \in DOMAIN ev : ev[i].event \in ResultEvents /\ ev[i].from = k}

\* worker by worker, the result of the last event of the stream that carries
\* one of that worker
Conveyed(ev) ==
    LET ks == {ev[i].from : i \in {j \in DOMAIN ev : ev[j].event \in ResultEvents}}
    IN  [k \in ks |->
            LET last == CHOOSE i \in EventsOf(ev, k) : \A j \in EventsOf(ev, k) : j <= i
            IN  ev[last].data[1]]

\* worker by worker, the result of the buffer of a long-poll
Returned(vec) ==
    [k \in {vec[i].from : i \in DOMAIN vec} |->
        vec[CHOOSE i \in DOMAIN vec : vec[i].from = k]]

\* where the long-poll stands: in its loop, or out of it by the count, by the
\* deadline or by the deletion of its task
PollStop(w) ==
    IF w.pc = "done" THEN w.exit
    ELSE IF StillWanted(w) THEN "running" ELSE "count"

\* the same of the stream (a stream that had nothing to wait for ends after
\* its replay; a deadline that has passed ends it at the loop condition)
StreamStop(w) ==
    IF w.pc = "done"
    THEN IF w.exit = "ended" THEN "count"
         ELSE IF w.exit = "late" THEN "deadline"
         ELSE w.exit
    ELSE IF StreamStillWanted(w) THEN "running" ELSE "count"

\* the request is past its snapshot and has taken every event it was sent
Settled(w) == w.pc \in {"waiting", "done"} /\ QueuesEmpty(w)

\* C30: a long-poll and a stream started from the same snapshot with the
\* same block that have taken the same events stand at the same place (both
\* in the loop, or both out of it by the count, by the deadline or by the
\* deletion, the deadline reaching one before the other), the buffer of the
\* long-poll holds one result per worker, and worker by worker it is the
\* result of the last event of the stream for that worker.
C30_SameStateMachine ==
    LET p == readers[Poller]
        s == readers[Streamer]
    IN  (Settled(p) /\ Settled(s)) =>
            /\ \/ PollStop(p) = StreamStop(s)
               \/ {PollStop(p), StreamStop(s)} = {"running", "deadline"}
            /\ \A i, j \in DOMAIN p.vec : p.vec[i].from = p.vec[j].from => i = j
            /\ Returned(p.vec) = Conveyed(s.events)
            /\ Returned(p.vec) = s.results

\* both left their loops by the count after a newer result of C1 and a first
\* result of B1: the stream sent three result events, the long-poll returns
\* the two latest results
C30_Witness ==
    LET p == readers[Poller]
        s == readers[Streamer]
    IN  /\ p.pc = "done" /\ p.exit = "count" /\ s.pc = "done" /\ s.exit = "count"
        /\ p.vec = <<ResultMsg("C1", {"A1"}, 1, "Succeeded"),
                     ResultMsg("B1", {"A1"}, 1, "TempFailed")>>
        /\ Len(s.events) = 3
        /\ s.events[2].event = "updated_result" /\ s.events[2].from = "C1"
        /\ s.events[3].event = "new_result" /\ s.events[3].from = "B1"


\* the indices parse_apikeys is to look at: those before the first i whose
\* APP_i_ID is not set
Scanned ==
    {i \in DOMAIN environ : \A j \in 0..i : environ[j].id # <<>>}

\* the scanned indices whose APP_i_KEY is set
WithKey == {i \in Scanned : environ[i].key # <<>>}

\* C31: parse_apikeys never looks past the first index whose APP_i_ID is not
\* set; it fails with ConfigurationFailed if and only if a scanned index with
\* a key set has an empty key; otherwise its map holds an entry for the id of
\* every scanned index whose key is set (with the key of the last such index
\* of that id) and for no other id, so that pairs with distinct ids give as
\* many entries as there are pairs, and an index with an id and no key adds
\* nothing.
C31_ApikeyParsing ==
    /\ \A j \in 0..(scan.i - 1) : j \in Scanned
    /\ scan.pc = "done" =>
          IF \E i \in WithKey : environ[i].key[1] = ""
          THEN scan.err = "ConfigurationFailed"
          ELSE /\ scan.err = ""
               /\ DOMAIN scan.api_keys =
                     {AppIdNew(environ[i].id[1], ProxyIdOfConfig) : i \in WithKey}
               /\ \A i \in WithKey :
                     (\A j \in WithKey : j > i => environ[j].id # environ[i].id) =>
                         scan.api_keys[AppIdNew(environ[i].id[1], ProxyIdOfConfig)]
                             = environ[i].key[1]
               /\ (\A i, j \in WithKey : environ[i].id = environ[j].id => i = j) =>
                     Cardinality(DOMAIN scan.api_keys) = Cardinality(WithKey)

\* APP_0 is a complete pair, APP_1 has an id and no key, APP_2 is a complete
\* pair of another id: two entries
C31_Witness ==
    /\ scan.pc = "done" /\ scan.err = ""
    /\ MaxApps >= 3
    /\ environ[0] = [id |-> <<"app1">>, key |-> <<"App1Secret">>]
    /\ environ[1] = [id |-> <<"app2">>, key |-> <<>>]
    /\ environ[2] = [id |-> <<"app2">>, key |-> <<"App2Secret">>]
    /\ Cardinality(DOMAIN scan.api_keys) = 2


\* the handler holds a guard of the lock
Holds(h, l) == \E x \in rwlocks[l].holders : x.h = h

\* the handler has asked for the lock and waits for it
WaitsFor(h, l) == handlers[h].queued /\ StepAt(h).lock = l

\* the handler can take a step of its own: it is not idle, not queued for a
\* lock and not awaiting a channel or a timer
CanRun(h) == StepAt(h).op = "unlock" \/ (StepAt(h).op = "lock" /\ ~handlers[h].queued)

\* C32: a handler that holds or awaits the lock of new_result_tx holds the
\* lock of tasks; a handler that awaits a channel or a timer holds no lock;
\* and while a handler waits for a lock, some handler can run or some lock
\* can be handed to the first of its queue, however the requests of POST
\* task, PUT result, the two result GETs, GET tasks and the sweeper
\* interleave.
C32_DeadlockFreedom ==
    /\ \A h \in Handlers :
          /\ (Holds(h, "new_result_tx") \/ WaitsFor(h, "new_result_tx")) => Holds(h, "tasks")
          /\ StepAt(h).op = "recv" => \A l \in DOMAIN rwlocks : ~Holds(h, l)
    /\ (\E h \in Handlers : handlers[h].queued) =>
          \/ \E h \in Handlers : CanRun(h)
          \/ \E l \in DOMAIN rwlocks : CanGrant(l)

\* both result GETs read the task map and the sender map while post_task and,
\* behind it, put_result wait for the task map
C32_Witness ==
    /\ \A h \in {"get_results", "get_stream"} : Holds(h, "tasks") /\ Holds(h, "new_result_tx")
    /\ Len(rwlocks["tasks"].queue) >= 2
    /\ rwlocks["tasks"].queue[1].h = "post_task"
    /\ rwlocks["tasks"].queue[2].h = "put_result"


\* C33: every id of the task map owns a Sender in new_result_tx; no PUT ends
\* in the panic of its lookup and no result GET, long-poll or stream, ends
\* its read-lock block in the panic of its lookup.
C33_NoMissingSender ==
    /\ [](DOMAIN tasks \subseteq txes)
    /\ [](~(resp.op = "put" /\ resp.status = 0))
    /\ [][\A r \in Readers : readers[r].pc = "idle" => readers'[r].pc # "panicked"]_vars

\* a result was accepted for a task whose id has been posted twice, while a
\* request that subscribed to the task's channel is in flight
C33_Witness ==
    /\ resp.op = "put" /\ resp.status = 201
    /\ nPost >= 2
    /\ \E r \in Readers : Subscribed(readers[r]) /\ readers[r].task_id = resp.id


\* the larger of two numbers
Larger(a, b) == IF a >= b THEN a ELSE b

\* the waiter's buffer holds at least wait_count items, its loop has not yet
\* been left
Filled(w) == w.pc = "waiting" /\ ~StillWanted(w)

\* a step in which the waiter takes nothing from its receivers and leaves its
\* buffer as it is
TakesNothing(w, n) ==
    /\ n.vec = w.vec
    /\ Len(n.rx_new) >= Len(w.rx_new)
    /\ Len(n.rx_del) >= Len(w.rx_del)

\* C34: the buffer of a long-poll on tasks or on results never holds more
\* items than the larger of its snapshot's size and wait_count, and a waiter
\* whose buffer has reached wait_count takes no further item or deletion.
C34_BufferBound ==
    /\ [](/\ \A l \in Listers :
               Len(listers[l].vec) <=
                   Larger(Cardinality(listers[l].snap_ids), CountOf(listers[l].block))
          /\ \A r \in Readers :
               Len(readers[r].vec) <=
                   Larger(Cardinality(readers[r].snap_keys), CountOf(readers[r].block)))
    /\ [][/\ \A l \in Listers : Filled(listers[l]) => TakesNothing(listers[l], listers'[l])
          /\ \A r \in Readers : Filled(readers[r]) => TakesNothing(readers[r], readers'[r])]_vars

\* a listing that asked for two tasks returned two and left a third in its
\* receiver; a request for results that asked for nothing returned the one
\* result of its snapshot
C34_Witness ==
    /\ \E l \in Listers :
          /\ listers[l].pc = "done" /\ listers[l].exit = "count"
          /\ Len(listers[l].vec) = 2 /\ CountOf(listers[l].block) = 2
          /\ listers[l].rx_new # <<>>
    /\ \E r \in Readers :
          /\ readers[r].pc = "done" /\ readers[r].block = NoBlock
          /\ Len(readers[r].vec) = 1


\* C35 as stated: the two requests a relay joins come from two different
\* callers.
C35_Original ==
    \A t \in tunnels : connectors[t.req].caller # connectors[t.other_req].caller

\* C36 as stated: a socket task id that was posted once and on which two
\* connectors have been paired has no connector parked on it afterwards, and
\* no second relay.
C36_Original ==
    nSocket <= 1 =>
        /\ \A id \in SockIds :
              ((\E c \in Paired : connectors[c].task_id = id) \/ (\E t \in tunnels : t.id = id))
                  => id \notin DOMAIN waiting_connections
        /\ \A t1, t2 \in tunnels : t1.id = t2.id => t1 = t2


\* C37 as stated: while a monitoring client holds a receiver, recording is
\* enabled, so that no Monitorer::send returns without sending.
C37_Original ==
    Receiving # {} => should_record


\* C38 as stated: every result in the body of an answered
\* GET /v1/tasks/:id/results carries the caller in its `to` set, whether it
\* was taken from the snapshot or received from the channel.
C38_Original ==
    \A r \in Readers :
        (readers[r].pc = "done" /\ readers[r].exit # "rejected")
            => \A i \in DOMAIN readers[r].vec : readers[r].caller \in readers[r].vec[i].to


\* C39: a POST /v1/tasks answered 409 changes neither the task map (the
\* existing task and its results), nor the result channels and their
\* subscribed readers, nor any lister (nothing is sent on new_task_tx).
C39_ConflictUntouched ==
    [][(nPost' # nPost /\ resp'.status = 409)
          => UNCHANGED <<tasks, txes, readers, listers, created, accepted>>]_vars

\* C39 witness: a POST was just answered 409 for a task that holds a result,
\* while a reader is subscribed to its channel and a lister is subscribed to
\* new tasks.
C39_Witness ==
    /\ resp.op = "post" /\ resp.status = 409
    /\ resp.id \in DOMAIN tasks /\ tasks[resp.id].results # EmptyMap
    /\ \E r \in Readers : readers[r].pc = "waiting" /\ readers[r].task_id = resp.id
    /\ \E l \in Listers : listers[l].pc = "waiting"


\* C40 as stated: a lister that has taken its snapshot is subscribed to the
\* deleted-task events, so every deletion sent from then on lands in its
\* receiver.
C40_Original ==
    [][\A l \in Listers :
          (nDel' # nDel /\ listers[l].pc \in {"snap", "waiting"})
              => Len(listers'[l].rx_del) = Len(listers[l].rx_del) + 1]_vars

=============================================================================
